---- MODULE Spec2Model ----
(***************************************************************************)
(* PC monitoring agent: offline-first local store and cloud sync engine.   *)
(* The GUI agent (pc-agent/gui_app.py: LocalDatabase, FirebaseSync,        *)
(* MonitoringAgent, PCMonitorApp) and the script agent's session handling  *)
(* (pc-agent/database.py: Database, monitors/session_monitor.py).          *)
(***************************************************************************)
EXTENDS Integers, Sequences, FiniteSets, TLC

\* ------------------------------------------------------------------ bounds
MaxElapsed == 125      \* seconds a session has run when the clock is at instant 0
MaxClock == 1          \* the clock takes the instants 0..MaxClock
SecondsPerStep == 90   \* whole seconds between two consecutive instants
MaxSessions == 2       \* session_logs rows inserted in one behaviour
MaxAppLogs == 2        \* application_logs rows inserted in one behaviour
MaxUuid == 2           \* computer ids generated in one behaviour
MaxCmds == 2           \* commands the controller queues in one behaviour
MaxFailures == 1       \* cap of the sync_failures counter
MaxLongCmds == 3       \* commands queued beyond ProcessedCap (long poller run)
MaxScriptSessions == 3 \* session_logs rows the script agent inserts in one behaviour
MaxPending == 1        \* commands waiting in the queue during the long poller run
MaxScriptApps == 2     \* application_logs rows the script agent inserts in one behaviour
MaxScriptSites == 1    \* website_logs rows the script agent inserts in one behaviour
MaxErrors == 4         \* error_logs rows the script agent inserts in one behaviour

\* ------------------------------------------------------- program constants
ProcessedCap == 100    \* gui_app.py:673
ProcessedKeep == 50    \* gui_app.py:674
SyncLimit == 100       \* gui_app.py:288 (limit=100)
SyncBatchSize == 100   \* config.py:38 (SYNC_BATCH_SIZE)

\* ---------------------------------------------------------------- values
NULL == <<>>           \* SQL NULL / Python None in a TEXT column
NULLINT == -1          \* SQL NULL in an INTEGER column
NoUser == ""           \* Python None / '' for a user id or linking code
OsUser == "user"       \* os.environ['USERNAME']
Users == {"u1", "u2"}
Codes == {"code1", "code2"}
Windows == {"w1", "w2"}

\* --------------------------------------------------------- datetime model
\* A datetime is [sec, us]; the clock index n stands for the instant
\* DateTime(n).  Odd instants carry a microsecond part, even ones do not.
DateTime(n) == [sec |-> n * SecondsPerStep, us |-> (n % 2) * 500000]

\* datetime.isoformat(): the fraction is printed only when it is not zero
isoformat(d) == IF d.us = 0 THEN <<d.sec>> ELSE <<d.sec, d.us>>

\* datetime.fromisoformat() on a string printed by isoformat()
fromisoformat(s) == [sec |-> s[1], us |-> IF Len(s) >= 2 THEN s[2] ELSE 0]

\* (a - b) in microseconds
MicrosBetween(a, b) == (a.sec - b.sec) * 1000000 + (a.us - b.us)

\* int(x) truncates toward zero
TruncDiv(a, b) == IF a >= 0 THEN a \div b ELSE -((-a) \div b)

\* int((end - start).total_seconds() / 60)
MinutesTrunc(end, start) == TruncDiv(MicrosBetween(end, start), 60000000)

\* ------------------------------------------------- LocalDatabase (GUI agent)
\* A table is a function from the row id to the row.
Ids(table) == DOMAIN table

\* rows of a SELECT ... LIMIT n, in rowid order; a negative n is no limit
RECURSIVE TakeIds(_, _)
TakeIds(S, n) ==
  IF S = {} \/ n = 0 THEN {}
  ELSE LET m == CHOOSE x \in S : \A y \in S : x <= y
       IN {m} \cup TakeIds(S \ {m}, n - 1)

close_stale_sessions_as_unsynced(sl) ==
  [id \in Ids(sl) |->
     IF sl[id].session_end = NULL
     THEN [sl[id] EXCEPT !.session_end = isoformat(fromisoformat(sl[id].session_start)),
                         !.duration_minutes = 0]
     ELSE sl[id]]

close_stale_sessions(sl) ==
  [id \in Ids(sl) |->
     IF sl[id].session_end = NULL
     THEN [sl[id] EXCEPT !.session_end = isoformat(fromisoformat(sl[id].session_start)),
                         !.duration_minutes = 0,
                         !.synced = 1]
     ELSE sl[id]]

NewSessionRow(cid, username, t) ==
  [computer_id |-> cid, username |-> username,
   session_start |-> isoformat(DateTime(t)), session_end |-> NULL,
   duration_minutes |-> NULLINT, synced |-> 0]

\* returns the table after the insert; the new row id is seq + 1
log_session_start(sl, seq, cid, username, t) ==
  close_stale_sessions(sl) @@ ((seq + 1) :> NewSessionRow(cid, username, t))

log_session_end_synced(sl, id, t) ==
  IF id \in Ids(sl)
  THEN [sl EXCEPT ![id].session_end = isoformat(DateTime(t)),
                  ![id].duration_minutes =
                      MinutesTrunc(DateTime(t), fromisoformat(sl[id].session_start)),
                  ![id].synced = 1]
  ELSE sl

log_session_end(sl, id, t) ==
  IF id \in Ids(sl)
  THEN [sl EXCEPT ![id].session_end = isoformat(DateTime(t)),
                  ![id].duration_minutes =
                      MinutesTrunc(DateTime(t), fromisoformat(sl[id].session_start))]
  ELSE sl

get_active_sessions(sl) == {id \in Ids(sl) : sl[id].session_end = NULL}

get_unsynced_sessions_every_closed(sl, limit) ==
  TakeIds({id \in Ids(sl) : sl[id].session_end # NULL}, limit)

get_unsynced_sessions(sl, limit) ==
  TakeIds({id \in Ids(sl) : sl[id].synced = 0 /\ sl[id].session_end # NULL}, limit)

mark_sessions_synced(sl, ids) ==
  [id \in Ids(sl) |-> IF id \in ids THEN [sl[id] EXCEPT !.synced = 1] ELSE sl[id]]

NewAppRow(cid, w, t) ==
  [computer_id |-> cid, window |-> w, start_time |-> isoformat(DateTime(t)),
   end_time |-> NULL, duration_seconds |-> NULLINT, synced |-> 0]

log_application(al, seq, cid, w, t) == al @@ ((seq + 1) :> NewAppRow(cid, w, t))

update_application_end(al, id, t) ==
  IF id \in Ids(al)
  THEN [al EXCEPT ![id].end_time = isoformat(DateTime(t)),
                  ![id].duration_seconds =
                      TruncDiv(MicrosBetween(DateTime(t), fromisoformat(al[id].start_time)),
                               1000000)]
  ELSE al

get_unsynced_applications_none(al, limit) == {}

get_unsynced_applications(al, limit) ==
  TakeIds({id \in Ids(al) : al[id].synced = 0 /\ al[id].end_time # NULL}, limit)

mark_applications_synced(al, ids) ==
  [id \in Ids(al) |-> IF id \in ids THEN [al[id] EXCEPT !.synced = 1] ELSE al[id]]

log_file_edit(fe, seq, cid, key) ==
  fe @@ ((seq + 1) :> [computer_id |-> cid, file_key |-> key, synced |-> 0])

get_unsynced_file_edits(fe, limit) ==
  TakeIds({id \in Ids(fe) : fe[id].synced = 0}, limit)

mark_file_edits_synced(fe, ids) ==
  [id \in Ids(fe) |-> IF id \in ids THEN [fe[id] EXCEPT !.synced = 1] ELSE fe[id]]

\* user_link is the sequence of its rows, oldest first
get_linked_user_id(ul) == IF Len(ul) = 0 THEN NoUser ELSE ul[Len(ul)]

save_linked_user_id(ul, uid) == <<uid>>


clear_linked_user(db) ==
  [db EXCEPT !.user_link = <<>>, !.session_logs = <<>>, !.application_logs = <<>>,
             !.file_edits = <<>>, !.computer = <<>>]

\* the first k of the five DELETE statements of clear_linked_user, executed on
\* the connection and not yet committed
ClearStatements == 5

clear_linked_user_statements(db, k) ==
  [db EXCEPT !.user_link = <<>>,
             !.session_logs = IF k >= 2 THEN <<>> ELSE @,
             !.application_logs = IF k >= 3 THEN <<>> ELSE @,
             !.file_edits = IF k >= 4 THEN <<>> ELSE @,
             !.computer = IF k >= ClearStatements THEN <<>> ELSE @]

\* ------------------------------------------------------------------ state
VARIABLES
  now,          \* clock index; datetime.now() is DateTime(now)
  net,          \* TRUE when the connectivity probe and the network answer
  db,           \* monitoring_data.db: the tables and their AUTOINCREMENT counters
  config,       \* config.json: linking_code, user_id
  app,          \* PCMonitorApp: process up, screen, monitoring flag, command poller
  sync,         \* the FirebaseSync object of the process
  agent,        \* the MonitoringAgent held in PCMonitorApp.agent
  remote,       \* the remote document tree of the linked user
  cmds,         \* remote command queue and the count of commands ever queued
  log,          \* the last handler run, the remote calls it issued, its last probe
  returned,     \* how often check_commands has returned each command id
  script        \* the script agent: process up, the fields of its monitors and
                \* services, OS user, the tables of its Database, its remote tree

vars == <<now, net, db, config, app, sync, agent, remote, cmds, log, returned, script>>

\* FirebaseSync.__init__
NewSync ==
  [user_id |-> NoUser, initialized |-> FALSE, offline_mode |-> FALSE,
   sync_failures |-> 0, last_status_update |-> -1, computer_registered |-> FALSE,
   processed |-> {}]

\* no MonitoringAgent (PCMonitorApp.agent = None)
NoAgent ==
  [live |-> FALSE, running |-> FALSE, stopping |-> FALSE, resume_mode |-> FALSE,
   current_session_id |-> 0, current_app_log_id |-> 0, last_app |-> "",
   current_activity |-> "Idle", computer_id |-> 0, tracked_files |-> {},
   heartbeat_running |-> FALSE]

\* MonitoringAgent.__init__
NewAgent(cid) == [NoAgent EXCEPT !.live = TRUE, !.computer_id = cid]

AppDown ==
  [up |-> FALSE, screen |-> "none", monitoring |-> FALSE, poller_active |-> FALSE,
   poller_start |-> -1, pending_start |-> FALSE, pending_poller |-> FALSE,
   hb |-> {}, inflight |-> {}, txn |-> <<>>, cid_pending |-> {}]

EmptyDb ==
  [computer |-> <<>>, uuid_ctr |-> 0,
   session_logs |-> <<>>, session_seq |-> 0,
   application_logs |-> <<>>, app_seq |-> 0,
   file_edits |-> <<>>, file_seq |-> 0,
   user_link |-> <<>>]

EmptyRemote ==
  [active |-> <<>>, history |-> <<>>, computers |-> <<>>,
   activities |-> {}, fileEdits |-> {}]

\* agentCodes/{code}: the public linking-code registry
AgentCodes ==
  [c \in Codes |-> [active |-> TRUE, userId |-> IF c = "code1" THEN "u1" ELSE "u2"]]

Call(verb, node, a, b, ok) == [verb |-> verb, node |-> node, a |-> a, b |-> b, ok |-> ok]

get_computer_id_always_new(d) ==
  [id |-> d.uuid_ctr + 1,
   db |-> [d EXCEPT !.computer = <<d.uuid_ctr + 1>>, !.uuid_ctr = d.uuid_ctr + 1]]

\* LocalDatabase.get_computer_id: the stored id, or a fresh uuid4 that is inserted
get_computer_id(d) ==
  IF Len(d.computer) > 0
  THEN [id |-> d.computer[1], db |-> d]
  ELSE [id |-> d.uuid_ctr + 1,
        db |-> [d EXCEPT !.computer = <<d.uuid_ctr + 1>>, !.uuid_ctr = d.uuid_ctr + 1]]

\* a function without the keys in K / with key k set to v
Without(f, K) == [k \in DOMAIN f \ K |-> f[k]]
With(f, k, v) == [x \in DOMAIN f \cup {k} |-> IF x = k THEN v ELSE f[x]]

\* keys of the remote active-session documents whose computerId is cid
ActiveKeysOf(r, cid) == {k \in DOMAIN r.active : r.active[k].computerId = cid}

\* the key "{computer_id}_{id}" of a session document
SessKey(cid, id) == <<cid, id>>


\* ------------------------------------------------------------ FirebaseSync
\* The operators below take and return a "world" W = [db, sync, remote, calls,
\* probe]: the local store, the FirebaseSync fields, the remote tree, the remote
\* calls issued so far by the running handler and the answer of its last
\* connectivity probe ("none" when is_online was not called).  The record o fixes the outcome
\* of every remote call of the handler (TRUE / member = HTTP 200).

\* every remote call fails: what the network gives while it is down
AllFail ==
  [code_get |-> FALSE, put_comp |-> FALSE, get_active |-> FALSE, patch_ok |-> {},
   hist_ok |-> {}, del_ok |-> {}, app_ok |-> {}, file_ok |-> {},
   status_ok |-> FALSE, offline_ok |-> FALSE, clear_get |-> FALSE, clear_ok |-> {},
   cmd_get |-> FALSE, cmd_del |-> FALSE, admin_ok |-> FALSE, wipe_ok |-> {}]

AddCalls(W, C) == [W EXCEPT !.calls = @ \cup C]

Bump(n) == IF n < MaxFailures THEN n + 1 ELSE n   \* sync_failures += 1, saturating

\* FirebaseSync._resolve_user_id
ResolveFromSaved(W) == get_linked_user_id(W.db.user_link) # NoUser

ResolveFromCode(cfg, o) ==
  /\ cfg.linking_code # NoUser
  /\ o.code_get
  /\ cfg.linking_code \in DOMAIN AgentCodes
  /\ AgentCodes[cfg.linking_code].active
  /\ AgentCodes[cfg.linking_code].userId # NoUser

resolve_user_id_ok(W, cfg, o) == ResolveFromSaved(W) \/ ResolveFromCode(cfg, o)

resolve_user_id(W, cfg, o) ==
  IF ResolveFromSaved(W)
  THEN [W EXCEPT !.sync.user_id = get_linked_user_id(W.db.user_link)]
  ELSE IF cfg.linking_code = NoUser THEN W
  ELSE LET W1 == AddCalls(W, {Call("GET", "agentCodes", 0, 0, o.code_get)})
       IN IF ResolveFromCode(cfg, o)
          THEN [W1 EXCEPT !.sync.user_id = AgentCodes[cfg.linking_code].userId,
                          !.db.user_link =
                              save_linked_user_id(@, AgentCodes[cfg.linking_code].userId)]
          ELSE W1

\* FirebaseSync.initialize
initialize_ok(W, cfg, online, o) == online /\ resolve_user_id_ok(W, cfg, o)

initialize(W, cfg, online, o) ==
  IF ~online THEN [W EXCEPT !.sync.offline_mode = TRUE, !.probe = "down"]
  ELSE LET W1 == resolve_user_id([W EXCEPT !.probe = "up"], cfg, o)
       IN IF resolve_user_id_ok(W, cfg, o)
          THEN [W1 EXCEPT !.sync.initialized = TRUE, !.sync.offline_mode = FALSE,
                          !.sync.sync_failures = 0]
          ELSE [W1 EXCEPT !.sync.offline_mode = TRUE]

\* FirebaseSync.clear_computer_sessions
clear_computer_sessions(W, cid, o) ==
  IF W.sync.user_id = NoUser \/ W.sync.offline_mode THEN W
  ELSE LET W1 == AddCalls(W, {Call("GET", "active", 0, 0, o.clear_get)})
           mine == ActiveKeysOf(W.remote, cid)
       IN IF ~o.clear_get THEN W1
          ELSE [AddCalls(W1, {Call("DELETE", "active", k[1], k[2], k \in o.clear_ok) : k \in mine})
                  EXCEPT !.remote.active = Without(@, mine \cap o.clear_ok)]

\* sync_all, "Register computer on first run only"
RegisterComputer(W, cid, t, o) ==
  IF W.sync.computer_registered THEN W
  ELSE [AddCalls(W, {Call("PUT", "computers", cid, 0, o.put_comp)})
          EXCEPT !.sync.computer_registered = TRUE,
                 !.remote.computers =
                    IF o.put_comp THEN With(@, cid, [status |-> "online", identity |-> TRUE,
                                            lastSeen |-> isoformat(DateTime(t))])
                    ELSE @]

\* sync_all, the active-session mirror with no local session to mirror:
\* patch currentActivity of the documents of this computer
MirrorExisting(W, cid, act, o) ==
  LET W1 == AddCalls(W, {Call("GET", "active", 0, 0, o.get_active)})
      mine == IF o.get_active THEN ActiveKeysOf(W.remote, cid) ELSE {}
  IN [AddCalls(W1, {Call("PATCH", "active", k[1], k[2], k \in o.patch_ok) : k \in mine})
        EXCEPT !.remote.active =
           [k \in DOMAIN @ |->
              IF k \in mine \cap o.patch_ok THEN [@[k] EXCEPT !.currentActivity = act]
              ELSE @[k]]]

\* sync_all, the active-session mirror of the local open sessions: nothing is
\* written when the list read shows a document of this computer
MirrorLocal(W, cid, act, active_sessions, o) ==
  LET W1 == AddCalls(W, {Call("GET", "active", 0, 0, o.get_active)})
      existing_sessions == IF o.get_active THEN ActiveKeysOf(W.remote, cid) ELSE {}
      keys == IF existing_sessions # {} THEN {}
              ELSE {SessKey(cid, id) : id \in active_sessions}
      made == keys \cap o.patch_ok
  IN [AddCalls(W1, {Call("PATCH", "active", k[1], k[2], k \in o.patch_ok) : k \in keys})
        EXCEPT !.remote.active =
           [k \in DOMAIN @ \cup made |->
              IF k \in made
              THEN [computerId |-> W.db.session_logs[k[2]].computer_id,
                    startTime |-> W.db.session_logs[k[2]].session_start,
                    currentActivity |-> act]
              ELSE @[k]]]

Mirror(W, cid, act, resume_only, o) ==
  LET active_sessions == IF resume_only THEN {} ELSE get_active_sessions(W.db.session_logs)
  IN IF active_sessions = {} THEN MirrorExisting(W, cid, act, o)
     ELSE MirrorLocal(W, cid, act, active_sessions, o)


\* sync_all, "Sync completed sessions to sessions/history/"
HistoryDoc(row) ==
  [computerId |-> row.computer_id, startTime |-> row.session_start,
   endTime |-> row.session_end,
   totalDuration |-> IF row.duration_minutes = NULLINT THEN 0 ELSE row.duration_minutes]

ArchiveSessions_mark_deleted(W, cid, o) ==
  LET sessions == get_unsynced_sessions(W.db.session_logs, SyncLimit)
      synced_session_ids == sessions \cap o.hist_ok
      gone == {SessKey(cid, id) : id \in synced_session_ids \cap o.del_ok}
      W1 == AddCalls(W, {Call("PUT", "history", cid, id, id \in o.hist_ok) : id \in sessions}
                        \cup {Call("DELETE", "active", cid, id, id \in o.del_ok)
                                : id \in synced_session_ids})
  IN [W1 EXCEPT
        !.remote.history =
           [k \in DOMAIN @ \cup {SessKey(cid, id) : id \in synced_session_ids} |->
              IF k[1] = cid /\ k[2] \in synced_session_ids
              THEN HistoryDoc(W.db.session_logs[k[2]]) ELSE @[k]],
        !.remote.active = Without(@, gone),
        !.db.session_logs = mark_sessions_synced(@, synced_session_ids \cap o.del_ok)]

ArchiveSessions(W, cid, o) ==
  LET sessions == get_unsynced_sessions(W.db.session_logs, SyncLimit)
      synced_session_ids == sessions \cap o.hist_ok
      gone == {SessKey(cid, id) : id \in synced_session_ids \cap o.del_ok}
      W1 == AddCalls(W, {Call("PUT", "history", cid, id, id \in o.hist_ok) : id \in sessions}
                        \cup {Call("DELETE", "active", cid, id, id \in o.del_ok)
                                : id \in synced_session_ids})
  IN [W1 EXCEPT
        !.remote.history =
           [k \in DOMAIN @ \cup {SessKey(cid, id) : id \in synced_session_ids} |->
              IF k[1] = cid /\ k[2] \in synced_session_ids
              THEN HistoryDoc(W.db.session_logs[k[2]]) ELSE @[k]],
        !.remote.active = Without(@, gone),
        !.db.session_logs = mark_sessions_synced(@, synced_session_ids)]

\* sync_all, "Sync applications"
ArchiveApplications_mark_all(W, cid, o) ==
  LET apps == get_unsynced_applications(W.db.application_logs, SyncLimit)
      synced_app_ids == apps \cap o.app_ok
  IN [AddCalls(W, {Call("PUT", "activities", cid, id, id \in o.app_ok) : id \in apps})
        EXCEPT !.remote.activities = @ \cup {<<cid, id>> : id \in synced_app_ids},
               !.db.application_logs = mark_applications_synced(@, apps)]

ArchiveApplications(W, cid, o) ==
  LET apps == get_unsynced_applications(W.db.application_logs, SyncLimit)
      synced_app_ids == apps \cap o.app_ok
  IN [AddCalls(W, {Call("PUT", "activities", cid, id, id \in o.app_ok) : id \in apps})
        EXCEPT !.remote.activities = @ \cup {<<cid, id>> : id \in synced_app_ids},
               !.db.application_logs = mark_applications_synced(@, synced_app_ids)]

\* sync_all, "Sync file edits"
ArchiveFileEdits(W, cid, o) ==
  LET file_edits == get_unsynced_file_edits(W.db.file_edits, SyncLimit)
      synced_file_ids == file_edits \cap o.file_ok
  IN [AddCalls(W, {Call("PUT", "fileEdits", cid, id, id \in o.file_ok) : id \in file_edits})
        EXCEPT !.remote.fileEdits = @ \cup {<<cid, id>> : id \in synced_file_ids},
               !.db.file_edits = mark_file_edits_synced(@, synced_file_ids)]

\* a PATCH of {status} on computers/{cid}: merges into the document
PatchStatus(computers, cid, status, t) ==
  IF cid \in DOMAIN computers
  THEN [computers EXCEPT ![cid].status = status, ![cid].lastSeen = isoformat(DateTime(t))]
  ELSE With(computers, cid, [status |-> status, identity |-> FALSE,
                             lastSeen |-> isoformat(DateTime(t))])

should_update_status_every_tick(last, t) == TRUE

\* sync_all, "Update computer status only every 30 seconds"
should_update_status(last, t) ==
  last = -1 \/ MicrosBetween(DateTime(t), DateTime(last)) >= 30 * 1000000

UpdateStatus(W, cid, t, pushed, o) ==
  IF should_update_status(W.sync.last_status_update, t) \/ pushed
  THEN [AddCalls(W, {Call("PATCH", "computers", cid, 0, o.status_ok)})
          EXCEPT !.remote.computers = IF o.status_ok THEN PatchStatus(@, cid, "online", t) ELSE @,
                 !.sync.last_status_update = t]
  ELSE W

\* sync_all past the connectivity and identity gates (the try block)
SyncBody(W, act, skip, resume_only, t, o) ==
  LET g  == get_computer_id(W.db)
      cid == g.id
      W0 == [W EXCEPT !.db = g.db]
      W1 == RegisterComputer(W0, cid, t, o)
      W2 == IF skip THEN W1 ELSE Mirror(W1, cid, act, resume_only, o)
      W3 == ArchiveSessions(W2, cid, o)
      W4 == ArchiveApplications(W3, cid, o)
      W5 == ArchiveFileEdits(W4, cid, o)
      pushed == \/ \E id \in Ids(W.db.session_logs) :
                      W.db.session_logs[id].synced = 0 /\ W5.db.session_logs[id].synced = 1
                \/ \E id \in Ids(W.db.application_logs) :
                      W.db.application_logs[id].synced = 0
                      /\ W5.db.application_logs[id].synced = 1
      W6 == IF skip THEN W5 ELSE UpdateStatus(W5, cid, t, pushed, o)
  IN [W6 EXCEPT !.sync.sync_failures = 0]

\* FirebaseSync.sync_all
sync_all(W, cfg, act, skip, resume_only, online, t, o) ==
  IF W.sync.offline_mode /\ ~online THEN [W EXCEPT !.probe = "down"]
  ELSE IF W.sync.offline_mode \/ ~W.sync.initialized
  THEN LET W1 == initialize(W, cfg, online, o)
       IN IF initialize_ok(W, cfg, online, o)
          THEN SyncBody(W1, act, skip, resume_only, t, o)
          ELSE [W1 EXCEPT !.sync.sync_failures = Bump(@)]
  ELSE SyncBody(W, act, skip, resume_only, t, o)


\* ---------------------------------------------------------- command queue
\* A command is [type, computerId, ts, queued_at]; computerId 0 stands for ''
\* (broadcast); ts is the timestamp field: [kind, at] with kind "utc" (ISO
\* string with Z or an offset), "naive" (ISO string without zone), "garbage"
\* (not ISO) or "absent" (no field / ''); queued_at is the instant at which
\* the controller queued it.
TsKinds == {"utc", "naive", "garbage", "absent"}
CmdTypes == {"stop_monitoring", "start_monitoring", "refresh"}

\* check_commands, "Skip commands older than min_timestamp": the parse or the
\* comparison of a naive with an aware datetime raises, and the except passes
SkippedAsStale(cmd, min_ts) ==
  /\ min_ts # -1
  /\ cmd.ts.kind = "utc"
  /\ MicrosBetween(DateTime(cmd.ts.at), DateTime(min_ts)) < 0

\* ids of the queue that check_commands would execute, given the processed set
Eligible(queue, cid, min_ts, processed) ==
  {id \in DOMAIN queue :
     /\ ~SkippedAsStale(queue[id], min_ts)
     /\ queue[id].computerId \in {cid, 0}
     /\ id \notin processed}

\* position of x in the ascending order of P
Rank(P, x) == Cardinality({y \in P : y < x})

\* set(list(processed)[-ProcessedKeep:]): the iteration order of a set is
\* unspecified; the slice keeps ProcessedKeep ids, here the ones that follow
\* some start id in cyclic id order
KeepChoices(P) ==
  {{x \in P : (Rank(P, x) - Rank(P, s0) + Cardinality(P)) % Cardinality(P) < ProcessedKeep}
     : s0 \in P}

TrimChoices(P) == IF Cardinality(P) > ProcessedCap THEN KeepChoices(P) ELSE {P}

\* ------------------------------------------------- MonitoringAgent handlers
World == [db |-> db, sync |-> sync, remote |-> remote, calls |-> {}, probe |-> "none"]

\* The outcomes the network can give to the remote calls of one handler.  F
\* names the groups of calls the handler can issue and Fl the groups whose calls
\* may fail while the network is up (the other calls then succeed); resume is
\* the resume_only argument of the handler's sync_all, and stopped tells that
\* the handler first ends the agent's session and application log.  The
\* outcome of a call that the handler does not issue in this state is left at
\* its AllFail value.
Groups == {"code", "put_comp", "get", "patch", "hist", "del", "app", "file", "status",
           "offline", "clear", "cmd_get", "cmd_del", "admin", "wipe"}

Outcomes(F, Fl, resume, stopped) ==
  IF ~net THEN {AllFail}
  ELSE LET cid == get_computer_id(db).id
           mine == ActiveKeysOf(remote, cid)
           ended == IF stopped THEN {agent.current_session_id} ELSE {}
           ended_app == IF stopped THEN {agent.current_app_log_id} ELSE {}
           open == get_active_sessions(db.session_logs) \ ended
           open_keys == {SessKey(cid, i) : i \in open}
           sessions == {i \in Ids(db.session_logs) :
                          /\ db.session_logs[i].synced = 0
                          /\ (db.session_logs[i].session_end # NULL \/ i \in ended)}
           apps == {i \in Ids(db.application_logs) :
                      /\ db.application_logs[i].synced = 0
                      /\ (db.application_logs[i].end_time # NULL \/ i \in ended_app)}
           files == {i \in Ids(db.file_edits) : db.file_edits[i].synced = 0}
           linked == sync.user_id # NoUser /\ ~sync.offline_mode
           B(n, issued) == IF n \in F /\ issued
                           THEN (IF n \in Fl THEN BOOLEAN ELSE {TRUE}) ELSE {FALSE}
           S(n, X) == IF n \in F THEN (IF n \in Fl THEN SUBSET X ELSE {X}) ELSE {{}}
           Targets(o) ==
             LET left == IF o.admin_ok THEN {} ELSE mine
             IN IF resume \/ open = {}
                THEN IF o.get_active THEN left ELSE {}
                ELSE IF o.get_active /\ left # {} THEN {} ELSE open_keys
           Fits(n, X, T) == X \subseteq T /\ (n \notin Fl => X = T)
       IN {o \in [code_get : B("code", get_linked_user_id(db.user_link) = NoUser),
                  put_comp : B("put_comp", ~sync.computer_registered),
                  get_active : B("get", TRUE),
                  patch_ok : IF "patch" \in F THEN SUBSET (mine \cup open_keys) ELSE {{}},
                  hist_ok : S("hist", sessions),
                  del_ok : IF "del" \in F THEN SUBSET sessions ELSE {{}},
                  app_ok : S("app", apps),
                  file_ok : S("file", files),
                  status_ok : B("status", TRUE),
                  offline_ok : B("offline", TRUE),
                  clear_get : B("clear", linked),
                  clear_ok : IF "clear" \in F THEN SUBSET mine ELSE {{}},
                  cmd_get : B("cmd_get", linked),
                  cmd_del : B("cmd_del", linked),
                  admin_ok : B("admin", sync.user_id # NoUser),
                  wipe_ok : S("wipe", {"computers", "active", "history"})] :
             /\ "patch" \in F => Fits("patch", o.patch_ok, Targets(o))
             /\ "del" \in F => Fits("del", o.del_ok, o.hist_ok)
             /\ "clear" \in F => Fits("clear", o.clear_ok, IF o.clear_get THEN mine ELSE {})
             /\ (~o.cmd_get => ~o.cmd_del)}

\* the groups of calls of sync_all, of a full stop, and of each other handler
SyncCalls == {"code", "put_comp", "get", "patch", "hist", "del", "app", "file", "status"}
StopCalls == SyncCalls \cup {"offline"}

\* _format_activity
FormatActivity(w) == IF w = "w1" THEN "Using w1" ELSE "Editing w2"

\* _extract_file_info: the file key of a window title, "" when it names no file
FileKeyOf(w) == IF w = "w2" THEN "f2" ELSE ""

\* MonitoringAgent.stop(pause_only=False) from the agent ag at instant t
FullStop(W, ag, cfg, online, t, o) ==
  LET W1 == [W EXCEPT
               !.db.session_logs =
                  IF ag.current_session_id # 0 THEN log_session_end(@, ag.current_session_id, t)
                  ELSE @,
               !.db.application_logs =
                  IF ag.current_app_log_id # 0
                  THEN update_application_end(@, ag.current_app_log_id, t) ELSE @]
      W2 == sync_all(W1, cfg, "Idle", ag.stopping, FALSE, online, t, o)
  IN IF W2.sync.user_id # NoUser
     THEN [AddCalls(W2, {Call("PATCH", "computers", ag.computer_id, 0, o.offline_ok)})
             EXCEPT !.remote.computers =
                       IF o.offline_ok THEN PatchStatus(@, ag.computer_id, "offline", t) ELSE @]
     ELSE W2

\* PCMonitorApp.stop_monitoring(from_remote=False)
Stopping == app.monitoring /\ agent.live

stop_monitoring(W, cfg, online, t, o) ==
  IF Stopping THEN FullStop(W, agent, cfg, online, t, o) ELSE W

Commit(W, op) ==
  /\ db' = W.db
  /\ sync' = W.sync
  /\ remote' = W.remote
  /\ log' = [op |-> op, calls |-> W.calls, probe |-> W.probe]


NoConfig == [linking_code |-> NoUser, user_id |-> NoUser]

EnvLog == [op |-> "env", calls |-> {}, probe |-> "none"]

\* ------------------------------------------------------------ PCMonitorApp
\* PCMonitorApp.__init__: the process starts
AppStart(Fl) ==
  /\ ~app.up
  /\ \E o \in Outcomes({"code"}, Fl, FALSE, FALSE) :
       LET configured == config.file.linking_code # NoUser /\ config.file.user_id # NoUser
           W0 == [World EXCEPT !.sync = NewSync]
           W1 == IF configured THEN initialize(W0, config.file, net, o) ELSE W0
       IN /\ Commit(W1, "app_start")
          /\ app' = [AppDown EXCEPT !.up = TRUE,
                                    !.screen = IF configured THEN "main" ELSE "setup",
                                    !.pending_start = configured,
                                    !.pending_poller = configured]
  /\ agent' = NoAgent
  /\ config' = [config EXCEPT !.mem = config.file]
  /\ UNCHANGED <<now, net, cmds, returned, script>>

\* PCMonitorApp.connect_account on the setup screen (with monitoring stopped)
ConnectAccount(code, Fl) ==
  /\ app.up /\ app.screen = "setup" /\ ~agent.live
  /\ \E o \in Outcomes({"code"}, Fl, FALSE, FALSE) :
       LET cfg1 == [config.mem EXCEPT !.linking_code = code]
           W0 == [World EXCEPT !.sync = NewSync]
           W1 == initialize(W0, cfg1, net, o)
           ok == initialize_ok(W0, cfg1, net, o)
           cfg2 == IF ok THEN [cfg1 EXCEPT !.user_id = W1.sync.user_id] ELSE cfg1
       IN /\ Commit(W1, "connect_account")
          /\ config' = [mem |-> cfg2, file |-> IF ok THEN cfg2 ELSE config.file]
          /\ app' = IF ok THEN [app EXCEPT !.screen = "main", !.pending_start = TRUE,
                                           !.pending_poller = TRUE]
                    ELSE app
  /\ UNCHANGED <<now, net, agent, cmds, returned, script>>

\* MonitoringAgent.start(resume=False) on a new agent for computer cid
AgentStartFresh(W, cid, t, o) ==
  LET W1 == clear_computer_sessions(W, cid, o)
  IN [W1 EXCEPT !.db.session_logs = log_session_start(@, W1.db.session_seq, cid, OsUser, t),
                !.db.session_seq = @ + 1]

\* root.after(1000, self.start_monitoring): PCMonitorApp.start_monitoring()
StartMonitoring(Fl) ==
  /\ app.up /\ app.pending_start
  /\ IF app.monitoring
     THEN /\ app' = [app EXCEPT !.pending_start = FALSE]
          /\ log' = [op |-> "start_monitoring", calls |-> {}, probe |-> "none"]
          /\ UNCHANGED <<db, sync, remote, agent>>
     ELSE /\ db.session_seq < MaxSessions
          /\ \E o \in Outcomes({"clear"}, Fl, FALSE, FALSE) :
               LET g == get_computer_id(db)
                   W1 == AgentStartFresh([World EXCEPT !.db = g.db], g.id, now, o)
               IN /\ Commit(W1, "start_monitoring")
                  /\ agent' = [NewAgent(g.id) EXCEPT !.running = TRUE,
                                                     !.current_session_id = db.session_seq + 1,
                                                     !.heartbeat_running = TRUE]
          /\ app' = [app EXCEPT !.pending_start = FALSE, !.monitoring = TRUE]
  /\ UNCHANGED <<now, net, config, cmds, returned, script>>

StartCommandPoller_before_start_monitoring ==
  /\ app.up /\ app.pending_poller
  /\ app' = [app EXCEPT !.pending_poller = FALSE, !.poller_active = TRUE,
                        !.poller_start = now]
  /\ log' = [op |-> "start_command_poller", calls |-> {}, probe |-> "none"]
  /\ UNCHANGED <<now, net, db, config, sync, agent, remote, cmds, returned, script>>

\* root.after(1500, self._start_command_poller): the timer set for 1000 ms
\* (start_monitoring) has fired before
StartCommandPoller ==
  /\ app.up /\ app.pending_poller /\ ~app.pending_start
  /\ app' = [app EXCEPT !.pending_poller = FALSE, !.poller_active = TRUE,
                        !.poller_start = now]
  /\ log' = [op |-> "start_command_poller", calls |-> {}, probe |-> "none"]
  /\ UNCHANGED <<now, net, db, config, sync, agent, remote, cmds, returned, script>>

\* MonitoringAgent._sync_loop: one iteration
SyncTick(Fl) ==
  /\ app.up /\ agent.live /\ agent.running
  /\ \E o \in Outcomes(SyncCalls, Fl, agent.resume_mode, FALSE) :
       Commit(sync_all(World, config.mem, agent.current_activity, agent.stopping,
                       agent.resume_mode, net, now, o), "sync_all")
  /\ UNCHANGED <<now, net, config, app, agent, cmds, returned, script>>

\* LocalDatabase._get_connection: every thread uses the one sqlite3 connection,
\* so there is one open transaction at most.  app.txn holds the store as it was
\* last committed while statements are pending, and is empty otherwise.  A
\* write call of any thread that executed a statement (before # after) ends
\* with commit(), which makes every pending statement of the connection durable.
connection_commit(txn, before, after) == IF before # after THEN <<>> ELSE txn

\* what the file holds: the store without the pending statements
Durable == IF app.txn = <<>> THEN db ELSE app.txn[1]

\* MonitoringAgent._sync_loop, one iteration taken in two steps: the sync-loop
\* thread runs sync_all up to the read of sessions/active (identity PUT, the
\* local open sessions, the GET), is preempted, and later runs the rest.  The
\* tick in flight is kept in app.inflight with what it has read.
SyncTickBegin ==
  /\ app.up /\ agent.live /\ agent.running /\ ~agent.resume_mode /\ ~agent.stopping
  /\ app.inflight = {}
  /\ net /\ sync.initialized /\ ~sync.offline_mode
  /\ \E o \in Outcomes({"put_comp", "get"}, {}, FALSE, FALSE) :
       LET g == get_computer_id(db)
           W1 == RegisterComputer([World EXCEPT !.db = g.db], g.id, now, o)
           W2 == AddCalls(W1, {Call("GET", "active", 0, 0, o.get_active)})
           active_sessions == get_active_sessions(db.session_logs)
           existing_sessions == IF o.get_active THEN ActiveKeysOf(remote, g.id) ELSE {}
           keys == IF active_sessions = {} THEN existing_sessions
                   ELSE IF existing_sessions # {} THEN {}
                   ELSE {SessKey(g.id, id) : id \in active_sessions}
       IN /\ Commit(W2, "sync_all_begin")
          /\ app' = [app EXCEPT !.inflight =
                        {[cid |-> g.id, stopping |-> FALSE, local |-> active_sessions # {},
                          act |-> agent.current_activity,
                          docs |-> [k \in keys |->
                                      IF active_sessions = {} THEN <<>>
                                      ELSE [computerId |-> db.session_logs[k[2]].computer_id,
                                            startTime |-> db.session_logs[k[2]].session_start,
                                            currentActivity |-> agent.current_activity]]]}]
  /\ UNCHANGED <<now, net, config, agent, cmds, returned, script>>

\* the PATCHes of the mirror step of the tick in flight
InFlightMirror(W, tick, online) ==
  LET keys == DOMAIN tick.docs
      made == IF online THEN keys ELSE {}
  IN [AddCalls(W, {Call("PATCH", "active", k[1], k[2], online) : k \in keys})
        EXCEPT !.remote.active =
           IF tick.local
           THEN [k \in DOMAIN @ \cup made |-> IF k \in made THEN tick.docs[k] ELSE @[k]]
           ELSE [k \in DOMAIN @ |->
                   IF k \in made THEN [@[k] EXCEPT !.currentActivity = tick.act] ELSE @[k]]]

\* the rest of the tick in flight: the mirror PATCHes, the archival steps and
\* the status patch; skip is what skip_active_check() returns by then (the
\* stopping flag of the tick's agent, which only a pause sets)
SyncTickEnd ==
  /\ app.up
  /\ \E tick \in app.inflight :
       \E o \in Outcomes(SyncCalls \ {"put_comp", "get", "patch"}, {}, FALSE, FALSE) :
          LET cid == tick.cid
              skip == tick.stopping
              W2 == InFlightMirror(World, tick, net)
              W3 == ArchiveSessions(W2, cid, o)
              W4 == ArchiveApplications(W3, cid, o)
              W5 == ArchiveFileEdits(W4, cid, o)
              pushed == \/ \E id \in Ids(db.session_logs) :
                              db.session_logs[id].synced = 0
                              /\ W5.db.session_logs[id].synced = 1
                        \/ \E id \in Ids(db.application_logs) :
                              db.application_logs[id].synced = 0
                              /\ W5.db.application_logs[id].synced = 1
              W6 == IF skip THEN W5 ELSE UpdateStatus(W5, cid, now, pushed, o)
          IN /\ Commit([W6 EXCEPT !.sync.sync_failures = 0], "sync_all_end")
             /\ app' = [app EXCEPT !.inflight = @ \ {tick},
                                   !.txn = connection_commit(@, db, W6.db)]
  /\ UNCHANGED <<now, net, config, agent, cmds, returned, script>>

\* MonitoringAgent._monitor_loop: one _check_foreground_app with window w in front
MonitorTick(w) ==
  /\ app.up /\ agent.live /\ agent.running
  /\ w # agent.last_app            \* an unchanged window leaves every field as it is
  /\ db.app_seq < MaxAppLogs
  /\ LET al1 == IF agent.current_app_log_id # 0
                THEN update_application_end(db.application_logs,
                                            agent.current_app_log_id, now)
                ELSE db.application_logs
         key == FileKeyOf(w)
         track == key # "" /\ key \notin agent.tracked_files
     IN /\ db' = [db EXCEPT
                    !.application_logs =
                       log_application(al1, db.app_seq, agent.computer_id, w, now),
                    !.app_seq = @ + 1,
                    !.file_edits =
                       IF track THEN log_file_edit(@, db.file_seq, agent.computer_id, key)
                       ELSE @,
                    !.file_seq = IF track THEN @ + 1 ELSE @]
        /\ agent' = [agent EXCEPT
                       !.current_activity = FormatActivity(w),
                       !.current_app_log_id = db.app_seq + 1,
                       !.last_app = w,
                       !.tracked_files = IF track THEN @ \cup {key} ELSE @]
  /\ log' = [op |-> "check_foreground_app", calls |-> {}, probe |-> "none"]
  /\ UNCHANGED <<now, net, config, app, sync, remote, cmds, returned, script>>

\* MonitoringAgent._heartbeat_loop: one iteration, of the current agent or of
\* an agent discarded by a pause (its thread keeps running), for computer c
Heartbeat_without_identity(c, Fl) ==
  /\ app.up
  /\ \/ agent.live /\ agent.heartbeat_running /\ c = agent.computer_id
     \/ c \in app.hb
  /\ \E o \in Outcomes({"status"}, Fl, FALSE, FALSE) :
       Commit([AddCalls(World, {Call("PATCH", "computers", c, 0, o.status_ok)})
                 EXCEPT !.remote.computers =
                           IF o.status_ok THEN PatchStatus(@, c, "online", now) ELSE @],
              "heartbeat")
  /\ UNCHANGED <<now, net, config, app, agent, cmds, returned, script>>

Heartbeat(c, Fl) ==
  /\ app.up
  /\ \/ agent.live /\ agent.heartbeat_running /\ c = agent.computer_id
     \/ c \in app.hb
  /\ sync.user_id # NoUser
  /\ \E o \in Outcomes({"status"}, Fl, FALSE, FALSE) :
       Commit([AddCalls(World, {Call("PATCH", "computers", c, 0, o.status_ok)})
                 EXCEPT !.remote.computers =
                           IF o.status_ok THEN PatchStatus(@, c, "online", now) ELSE @],
              "heartbeat")
  /\ UNCHANGED <<now, net, config, app, agent, cmds, returned, script>>


\* FirebaseSync.check_commands: the id it executes (0 for none)
SmallestOf(S) == CHOOSE x \in S : \A y \in S : x <= y

check_commands_id(sy, queue, cid, min_ts, o) ==
  IF sy.user_id = NoUser \/ sy.offline_mode \/ ~o.cmd_get THEN 0
  ELSE LET e == Eligible(queue, cid, min_ts, sy.processed)
       IN IF e = {} THEN 0 ELSE SmallestOf(e)

Count(f, id) == IF id \in DOMAIN f THEN f[id] ELSE 0

\* PCMonitorApp.start_monitoring(resume=True) and MonitoringAgent.start(resume=True)
ResumedAgent(cid) ==
  [NewAgent(cid) EXCEPT !.running = TRUE, !.resume_mode = TRUE,
                        !.current_session_id = 0, !.heartbeat_running = TRUE]

\* MonitoringAgent.stop(pause_only=True) on the agent ag: running is cleared and
\* heartbeat_running is left as it is, so the heartbeat thread of the discarded
\* agent goes on; hb is the set of computers such threads patch
stop_pause_only_heartbeat_stopped(ag, hb) == hb

stop_pause_only(ag, hb) ==
  IF ag.live /\ ag.heartbeat_running THEN hb \cup {ag.computer_id} ELSE hb

\* PCMonitorApp._poller_done: the transition the command cmd causes
poller_done_else_resume(cmd, monitoring) ==
  IF cmd = "stop_monitoring" /\ monitoring THEN "pause"
  ELSE IF cmd # "none" /\ ~monitoring THEN "resume"
  ELSE "none"

poller_done(cmd, monitoring) ==
  IF cmd = "stop_monitoring" /\ monitoring THEN "pause"
  ELSE IF cmd = "start_monitoring" /\ ~monitoring THEN "resume"
  ELSE "none"

\* _run_session_status_poller: check() and then _poller_done(cmd)
PollCommands(Fl) ==
  /\ app.up /\ app.poller_active
  /\ \E o \in Outcomes({"cmd_get", "cmd_del"}, Fl, FALSE, FALSE) :
       LET g == get_computer_id(db)
           id == check_commands_id(sync, cmds.queue, g.id, app.poller_start, o)
           cmd == IF id = 0 THEN "none" ELSE cmds.queue[id].type
           issued == IF sync.user_id = NoUser \/ sync.offline_mode THEN {}
                     ELSE {Call("GET", "commands", 0, 0, o.cmd_get)}
                          \cup (IF id = 0 THEN {}
                                ELSE {Call("DELETE", "commands", id, 0, o.cmd_del)})
       IN /\ db' = g.db
          /\ \E kept \in (IF id = 0 THEN {sync.processed}
                          ELSE TrimChoices(sync.processed \cup {id})) :
                sync' = [sync EXCEPT !.processed = kept]
          /\ cmds' = IF id # 0 /\ o.cmd_del THEN [cmds EXCEPT !.queue = Without(@, {id})]
                     ELSE cmds
          /\ returned' = IF id = 0 THEN returned
                         ELSE With(returned, id, Count(returned, id) + 1)
          /\ log' = [op |-> "poll_commands", calls |-> issued, probe |-> "none"]
          /\ IF poller_done(cmd, app.monitoring) = "pause"
             THEN /\ agent' = NoAgent
                  /\ app' = [app EXCEPT
                               !.monitoring = FALSE,
                               !.hb = stop_pause_only(agent, @),
                               !.inflight = {[t EXCEPT !.stopping = TRUE] : t \in @}]
             ELSE IF poller_done(cmd, app.monitoring) = "resume"
             THEN /\ agent' = ResumedAgent(g.id)
                  /\ app' = [app EXCEPT !.monitoring = TRUE]
             ELSE UNCHANGED <<agent, app>>
  /\ UNCHANGED <<now, net, config, remote, script>>

\* LocalDatabase.get_computer_id called by the command-poller thread or the
\* sync-loop thread, statement by statement: the SELECT, and when it found no
\* row (the thread is then kept in app.cid_pending) the INSERT of a fresh
\* uuid4 with its commit.  The call's return value is recorded in log.calls.
Threads == {"poller", "sync"}

ThreadGetComputerId(th) ==
  /\ app.up
  /\ IF th \in app.cid_pending
     THEN /\ db.uuid_ctr < MaxUuid
          /\ db' = [db EXCEPT !.computer = Append(@, db.uuid_ctr + 1),
                              !.uuid_ctr = @ + 1]
          /\ app' = [app EXCEPT !.cid_pending = @ \ {th},
                                !.txn = connection_commit(@, db, db')]
          /\ log' = [op |-> "get_computer_id",
                     calls |-> {Call("LOCAL", th, db.uuid_ctr + 1, 0, TRUE)},
                     probe |-> "none"]
     ELSE /\ \/ th = "poller" /\ app.poller_active
             \/ th = "sync" /\ agent.live /\ agent.running
          /\ IF Len(db.computer) > 0
             THEN /\ log' = [op |-> "get_computer_id",
                             calls |-> {Call("LOCAL", th, db.computer[1], 0, TRUE)},
                             probe |-> "none"]
                  /\ UNCHANGED app
             ELSE /\ log' = [op |-> "get_computer_id_select", calls |-> {},
                             probe |-> "none"]
                  /\ app' = [app EXCEPT !.cid_pending = @ \cup {th}]
          /\ UNCHANGED db
  /\ UNCHANGED <<now, net, config, sync, agent, remote, cmds, returned, script>>

\* what os._exit, a kill or a power loss leave: no process, only the files
ProcessGone ==
  /\ app' = AppDown
  /\ agent' = NoAgent
  /\ config' = [config EXCEPT !.mem = config.file]

\* on_close, the firebase_admin cleanup: delete the active-session documents
\* of this computer and set the status offline
AdminCleanup(W, t, o) ==
  IF W.sync.user_id = NoUser THEN W
  ELSE LET g == get_computer_id(W.db)
           W1 == AddCalls([W EXCEPT !.db = g.db], {Call("ADMIN", "active", g.id, 0, o.admin_ok)})
       IN IF o.admin_ok
          THEN [W1 EXCEPT !.remote.active = Without(@, ActiveKeysOf(W.remote, g.id)),
                          !.remote.computers = PatchStatus(@, g.id, "offline", t)]
          ELSE W1

\* PCMonitorApp.on_close: the window is closed
CloseWindow(Fl) ==
  /\ app.up
  /\ \E o \in Outcomes(IF Stopping THEN StopCalls \cup {"admin"} ELSE {"admin"}, Fl, FALSE, Stopping) :
       LET W1 == AdminCleanup(World, now, o)
           W2 == stop_monitoring(W1, config.mem, net, now, o)
       IN Commit([W2 EXCEPT !.sync = NewSync], "on_close")
  /\ ProcessGone
  /\ UNCHANGED <<now, net, cmds, returned, script>>

\* FirebaseSync.clear_firebase_data
clear_firebase_data(W, o) ==
  IF W.sync.user_id = NoUser \/ W.sync.offline_mode THEN W
  ELSE [AddCalls(W, {Call("PUT", n, 0, 0, n \in o.wipe_ok)
                       : n \in {"computers", "active", "history"}})
          EXCEPT !.remote.computers = IF "computers" \in o.wipe_ok THEN <<>> ELSE @,
                 !.remote.active = IF "active" \in o.wipe_ok THEN <<>> ELSE @,
                 !.remote.history = IF "history" \in o.wipe_ok THEN <<>> ELSE @]

\* PCMonitorApp.disconnect_account: the Switch Account button, confirmed
DisconnectAccount(Fl) ==
  /\ app.up /\ app.screen = "main"
  /\ db.uuid_ctr < MaxUuid
  /\ \E o \in Outcomes(IF Stopping THEN StopCalls \cup {"wipe"} ELSE {"wipe"}, Fl, FALSE, Stopping) :
       LET W1 == stop_monitoring(World, config.mem, net, now, o)
           W2 == clear_firebase_data(W1, o)
       IN Commit([W2 EXCEPT !.db = clear_linked_user(@), !.sync = NewSync],
                 "disconnect_account")
  /\ config' = [mem |-> NoConfig, file |-> NoConfig]
  /\ agent' = NoAgent
  /\ app' = [app EXCEPT !.monitoring = FALSE, !.poller_active = FALSE, !.screen = "setup",
                        !.hb = {}]
  /\ UNCHANGED <<now, net, cmds, returned, script>>

\* PCMonitorApp.disconnect_account taken in two steps: the main thread runs up
\* to the k-th DELETE of clear_linked_user and is preempted there, the
\* statements pending on the connection
DisconnectAccountBegin(Fl) ==
  /\ app.up /\ app.screen = "main"
  /\ db.uuid_ctr < MaxUuid
  /\ \E k \in 1..(ClearStatements - 1) :
     \E o \in Outcomes(IF Stopping THEN StopCalls \cup {"wipe"} ELSE {"wipe"}, Fl, FALSE, Stopping) :
       LET W1 == stop_monitoring(World, config.mem, net, now, o)
           W2 == clear_firebase_data(W1, o)
       IN /\ Commit([W2 EXCEPT !.db = clear_linked_user_statements(@, k)],
                    "disconnect_account_begin")
          /\ app' = [app EXCEPT !.monitoring = FALSE, !.poller_active = FALSE,
                                !.screen = "disconnecting", !.txn = <<W2.db>>]
  /\ agent' = NoAgent
  /\ UNCHANGED <<now, net, config, cmds, returned, script>>

\* the rest of disconnect_account: the remaining DELETEs, the commit, the
\* reset of config and sync, the setup screen
DisconnectAccountEnd ==
  /\ app.up /\ app.screen = "disconnecting"
  /\ Commit([World EXCEPT !.db = clear_linked_user(@), !.sync = NewSync],
            "disconnect_account")
  /\ config' = [mem |-> NoConfig, file |-> NoConfig]
  /\ app' = [app EXCEPT !.screen = "setup", !.hb = {}, !.txn = <<>>]
  /\ UNCHANGED <<now, net, agent, cmds, returned, script>>

\* show_settings.disconnect: Settings > Disconnect Account, confirmed
SettingsDisconnect(Fl) ==
  /\ app.up /\ app.screen = "main"
  /\ \E o \in Outcomes(IF Stopping THEN StopCalls ELSE {}, Fl, FALSE, Stopping) :
       Commit(stop_monitoring(World, config.mem, net, now, o), "settings_disconnect")
  /\ config' = [mem |-> NoConfig, file |-> NoConfig]
  /\ agent' = NoAgent
  /\ app' = [app EXCEPT !.monitoring = FALSE, !.screen = "setup"]
  /\ UNCHANGED <<now, net, cmds, returned, script>>

\* the process is killed or the machine loses power
Crash ==
  /\ app.up
  /\ ProcessGone
  /\ sync' = NewSync
  /\ log' = [op |-> "crash", calls |-> {}, probe |-> "none"]
  /\ db' = Durable              \* the pending statements are rolled back
  /\ UNCHANGED <<now, net, remote, cmds, returned, script>>

\* ------------------------------------------------------------- environment
Tick ==
  /\ now < MaxClock
  /\ now' = now + 1
  /\ log' = EnvLog
  /\ UNCHANGED <<net, db, config, app, sync, agent, remote, cmds, returned, script>>

NetFlip ==
  /\ net' = ~net
  /\ log' = EnvLog
  /\ UNCHANGED <<now, db, config, app, sync, agent, remote, cmds, returned, script>>

\* the controller (mobile/web app) queues a command
QueueCommand(type, target, kind, limit, room) ==
  /\ cmds.count < limit
  /\ Cardinality(DOMAIN cmds.queue) < room
  /\ cmds' = [queue |-> With(cmds.queue, cmds.count + 1,
                             [type |-> type, computerId |-> target,
                              ts |-> [kind |-> kind, at |-> now], queued_at |-> now]),
              count |-> cmds.count + 1]
  /\ log' = EnvLog
  /\ UNCHANGED <<now, net, db, config, app, sync, agent, remote, returned, script>>

\* the controller adjusts the startTime of an active-session document
Adjusted == <<1>>

AdjustStartTime(k) ==
  /\ k \in DOMAIN remote.active
  /\ remote.active[k].startTime # Adjusted
  /\ remote' = [remote EXCEPT !.active[k].startTime = Adjusted]
  /\ log' = EnvLog
  /\ UNCHANGED <<now, net, db, config, app, sync, agent, cmds, returned, script>>

\* --------------------------------------------- script agent (agent.py)
OsUsers == {"alice", "bob"}

\* the foreground window: process name and window title
NoWindow == [app |-> "", title |-> ""]
BrowserWindow == [app |-> "chrome.exe", title |-> "a"]
EditorWindow == [app |-> "notepad.exe", title |-> "n"]
ForegroundWindows == {BrowserWindow, [app |-> "chrome.exe", title |-> "b"], EditorWindow}

\* what the store does to the statements of one loop iteration: every statement
\* succeeds, the statements on the data tables raise sqlite3.Error, or every
\* statement (the INSERT INTO error_logs included) raises
StoreFaults == {"ok", "data", "all"}

\* round(): Python rounds a tie to the even integer
RoundHalfEven(a, b) ==
  LET q == a \div b
      r == a % b
  IN IF 2 * r < b THEN q
     ELSE IF 2 * r > b THEN q + 1
     ELSE IF q % 2 = 0 THEN q ELSE q + 1

Max(a, b) == IF a >= b THEN a ELSE b

\* Database.register_computer: the stored id, or a fresh uuid4 that is inserted
register_computer(computer) == IF Len(computer) > 0 THEN computer ELSE <<1>>

\* Database.start_session: returns the table after the insert (row id seq + 1)
start_session(sl, seq, cid, username, t) == sl @@ ((seq + 1) :> NewSessionRow(cid, username, t))

end_session_truncating(sl, id, t) ==
  IF id \in Ids(sl)
  THEN [sl EXCEPT ![id].session_end = isoformat(DateTime(t)),
                  ![id].duration_minutes =
                      MinutesTrunc(DateTime(t), fromisoformat(sl[id].session_start))]
  ELSE sl

\* Database.end_session
end_session(sl, id, t) ==
  IF id \in Ids(sl)
  THEN [sl EXCEPT ![id].session_end = isoformat(DateTime(t)),
                  ![id].duration_minutes =
                      Max(1, RoundHalfEven(MicrosBetween(DateTime(t),
                                                         fromisoformat(sl[id].session_start)),
                                           60000000))]
  ELSE sl

\* Database.get_unsynced_sessions / get_active_sessions / mark_sessions_synced
Database_get_unsynced_sessions(sl, limit) ==
  TakeIds({id \in Ids(sl) : sl[id].synced = 0 /\ sl[id].session_end # NULL}, limit)

Database_get_active_sessions(sl) == {id \in Ids(sl) : sl[id].session_end = NULL}

Database_mark_sessions_synced(sl, ids) ==
  [id \in Ids(sl) |-> IF id \in ids THEN [sl[id] EXCEPT !.synced = 1] ELSE sl[id]]

\* Database.log_application: returns the table after the insert (row id seq + 1)
Database_log_application(al, seq, cid, username, w, t) ==
  al @@ ((seq + 1) :>
           [computer_id |-> cid, username |-> username, application_name |-> w.app,
            window_title |-> w.title, start_time |-> isoformat(DateTime(t)),
            end_time |-> NULL, duration_seconds |-> NULLINT, synced |-> 0])

\* Database.update_application_end: an UPDATE ... WHERE id = ?
Database_update_application_end(al, id, t, duration) ==
  IF id \in Ids(al)
  THEN [al EXCEPT ![id].end_time = isoformat(DateTime(t)), ![id].duration_seconds = duration]
  ELSE al

Database_get_unsynced_applications_unfinished(al, limit) ==
  TakeIds({id \in Ids(al) : al[id].synced = 0}, limit)

Database_get_unsynced_applications(al, limit) ==
  TakeIds({id \in Ids(al) : al[id].synced = 0 /\ al[id].end_time # NULL}, limit)

Database_mark_applications_synced(al, ids) ==
  [id \in Ids(al) |-> IF id \in ids THEN [al[id] EXCEPT !.synced = 1] ELSE al[id]]

\* Database.log_website / get_unsynced_websites / mark_websites_synced
Database_log_website(wl, seq, cid, username, url) ==
  wl @@ ((seq + 1) :> [computer_id |-> cid, username |-> username, url |-> url, synced |-> 0])

Database_get_unsynced_websites(wl, limit) ==
  TakeIds({id \in Ids(wl) : wl[id].synced = 0}, limit)

Database_mark_websites_synced(wl, ids) ==
  [id \in Ids(wl) |-> IF id \in ids THEN [wl[id] EXCEPT !.synced = 1] ELSE wl[id]]

\* Database.log_error: one more row in error_logs (the table is kept as its row count)
Database_log_error(n) == n + 1

\* Database.get_linked_user_id / save_linked_user_id / clear_user_link
Database_get_linked_user_id(ul) == IF Len(ul) = 0 THEN NoUser ELSE ul[Len(ul)]

Database_save_linked_user_id_keep_rows(ul, uid) == Append(ul, uid)

Database_save_linked_user_id(ul, uid) == <<uid>>

clear_user_link(ul) == <<>>

\* the remote tree users/{userId} as the script agent writes it
EmptyTree ==
  [computer |-> "none", active |-> {}, history |-> {}, activities |-> {}, websites |-> {}]

\* the script agent: no process, an empty Database file, an empty remote tree
ScriptDown ==
  [up |-> FALSE, current_session_id |-> 0, current_username |-> NoUser,
   os_user |-> "alice", computer |-> <<>>, session_logs |-> <<>>, session_seq |-> 0,
   application_logs |-> <<>>, app_seq |-> 0, website_logs |-> <<>>, web_seq |-> 0,
   error_logs |-> 0, user_link |-> <<>>, computer_synced |-> FALSE,
   code |-> "code1",
   current_app_name |-> "", current_window_title |-> "", current_log_id |-> 0,
   app_start_time |-> -1, last_url |-> "",
   initialized |-> FALSE, offline_mode |-> FALSE, user_id |-> NoUser, sync_failures |-> 0,
   is_online |-> FALSE, last_check_result |-> FALSE, last_sync_time |-> -1,
   monitoring_loop |-> "none", last_iteration |-> -1,
   cloud |-> [u \in Users |-> EmptyTree]]

\* PCMonitoringAgent.__init__ and the constructors of its components: what a
\* process holds in memory when it starts, and what is gone when it exits
InMemory(sc) ==
  [sc EXCEPT !.current_session_id = 0, !.current_username = NoUser,
             !.current_app_name = "", !.current_window_title = "", !.current_log_id = 0,
             !.app_start_time = -1, !.last_url = "",
             !.initialized = FALSE, !.offline_mode = FALSE, !.user_id = NoUser,
             !.sync_failures = 0, !.is_online = FALSE, !.last_check_result = FALSE,
             !.last_sync_time = -1, !.last_iteration = -1]

\* SessionMonitor.end_session
SessionMonitor_end_session(sc, t) ==
  IF sc.current_session_id = 0 THEN sc
  ELSE [sc EXCEPT !.session_logs = end_session(@, sc.current_session_id, t),
                  !.current_session_id = 0,
                  !.current_username = NoUser]

\* SessionMonitor.start_session
SessionMonitor_start_session(sc, t) ==
  IF sc.current_session_id # 0 /\ sc.current_username = sc.os_user THEN sc
  ELSE LET s1 == SessionMonitor_end_session(sc, t)
       IN [s1 EXCEPT !.current_username = sc.os_user,
                     !.session_logs = start_session(@, s1.session_seq, s1.computer[1],
                                                    sc.os_user, t),
                     !.session_seq = @ + 1,
                     !.current_session_id = s1.session_seq + 1]

SessionMonitor_check_user_change_rename_only(sc, t, f) ==
  IF sc.current_username = NoUser \/ sc.os_user = sc.current_username THEN sc
  ELSE [sc EXCEPT !.current_username = sc.os_user]

\* SessionMonitor.check_user_change under the store fault f.  With "data" the
\* writes of end_session and start_session raise and each handler records the
\* error; with "all" log_error raises out of end_session and check_user_change
\* catches it.
SessionMonitor_check_user_change(sc, t, f) ==
  IF sc.current_username = NoUser \/ sc.os_user = sc.current_username THEN sc
  ELSE CASE f = "ok" -> SessionMonitor_start_session(SessionMonitor_end_session(sc, t), t)
         [] f = "data" ->
              [sc EXCEPT !.current_username = sc.os_user,
                         !.error_logs =
                            Database_log_error(Database_log_error(Database_log_error(@)))]
         [] OTHER -> sc

\* ApplicationMonitor._end_current_app
ApplicationMonitor_end_current_app(sc, t, f) ==
  IF sc.current_log_id = 0 \/ sc.app_start_time = -1 THEN sc
  ELSE LET duration == TruncDiv(MicrosBetween(DateTime(t), DateTime(sc.app_start_time)),
                                1000000)
       IN IF duration >= 1 /\ f # "ok" THEN sc
          ELSE [sc EXCEPT !.application_logs =
                             IF duration >= 1
                             THEN Database_update_application_end(@, sc.current_log_id, t,
                                                                  duration)
                             ELSE @,
                          !.current_log_id = 0,
                          !.app_start_time = -1]

\* ApplicationMonitor._start_new_app
ApplicationMonitor_start_new_app(sc, w, t, f) ==
  LET s1 == [sc EXCEPT !.current_app_name = w.app, !.current_window_title = w.title,
                       !.app_start_time = t]
  IN IF f # "ok" THEN s1
     ELSE [s1 EXCEPT !.application_logs =
                        Database_log_application(@, sc.app_seq, sc.computer[1],
                                                 sc.current_username, w, t),
                     !.app_seq = @ + 1,
                     !.current_log_id = sc.app_seq + 1]

\* ApplicationMonitor.check_and_log
ApplicationMonitor_check_and_log(sc, w, t, f) ==
  IF sc.current_username = NoUser \/ w.app = "" THEN sc
  ELSE IF w.app # sc.current_app_name
  THEN ApplicationMonitor_start_new_app(ApplicationMonitor_end_current_app(sc, t, f), w, t, f)
  ELSE [sc EXCEPT !.current_window_title = w.title]

\* ApplicationMonitor.stop
ApplicationMonitor_stop(sc, t, f) ==
  [ApplicationMonitor_end_current_app(sc, t, f) EXCEPT !.current_app_name = "",
                                                        !.current_window_title = ""]

\* WebsiteMonitor._extract_url_from_title: the page identifier of a browser window
UrlOf(w) == <<"page", w.title>>

\* WebsiteMonitor.check_and_log reaches its log_website call
WebsiteMonitor_logs(sc, w) ==
  /\ sc.current_username # NoUser
  /\ w.app = "chrome.exe"
  /\ w.title # ""
  /\ UrlOf(w) # sc.last_url

\* the process exits: an exception left _monitoring_loop and start(), main()'s
\* finally ran stop() against the failing store (no row is written, the final
\* sync is not reached) and the exception ended the process
LoopTerminated(sc) == [InMemory(sc) EXCEPT !.up = FALSE, !.monitoring_loop = "terminated"]

\* one iteration of PCMonitoringAgent._monitoring_loop on the foreground window w
MonitoringLoopIteration(sc, w, t, f) ==
  LET s1 == SessionMonitor_check_user_change(sc, t, f)
      s2 == [ApplicationMonitor_check_and_log(s1, w, t, f) EXCEPT !.last_iteration = t]
  IN IF ~WebsiteMonitor_logs(s2, w) THEN s2
     ELSE LET s3 == [s2 EXCEPT !.last_url = UrlOf(w)]
          IN CASE f = "ok" ->
                    [s3 EXCEPT !.website_logs =
                                  Database_log_website(@, s3.web_seq, s3.computer[1],
                                                       s3.current_username, UrlOf(w)),
                               !.web_seq = @ + 1]
               [] f = "data" -> [s3 EXCEPT !.error_logs = Database_log_error(@)]
               [] OTHER -> LoopTerminated(s3)

\* ------------------------------------------- SyncService (sync_service.py)
\* The record o fixes the outcome of the remote calls of one handler: TRUE when
\* the firebase_admin call returns, FALSE when it raises.
ScriptGroups == {"lookup", "reg", "cleanup", "cleanup_del", "active", "hist", "del",
                 "app", "web", "status"}

ScriptOutcomes(Fl) ==
  LET B(n) == IF ~net THEN {FALSE} ELSE IF n \in Fl THEN BOOLEAN ELSE {TRUE}
  IN [lookup_ok : B("lookup"), reg_ok : B("reg"), cleanup_ok : B("cleanup"),
      cleanup_del_ok : B("cleanup_del"), active_ok : B("active"), hist_ok : B("hist"),
      del_ok : B("del"), app_ok : B("app"), web_ok : B("web"), status_ok : B("status")]

\* SyncService._resolve_user_id with config.USER_ID empty
SyncService_resolve_ok(sc, o) ==
  IF sc.code # NoUser
  THEN o.lookup_ok /\ sc.code \in DOMAIN AgentCodes /\ AgentCodes[sc.code].active
  ELSE Database_get_linked_user_id(sc.user_link) # NoUser

SyncService_resolve_user_id(sc, o) ==
  IF ~SyncService_resolve_ok(sc, o) THEN sc
  ELSE IF sc.code # NoUser
  THEN [sc EXCEPT !.user_id = AgentCodes[sc.code].userId,
                  !.user_link = Database_save_linked_user_id(@, AgentCodes[sc.code].userId)]
  ELSE [sc EXCEPT !.user_id = Database_get_linked_user_id(sc.user_link)]

\* SyncService.initialize and its return value
SyncService_initialize_ok(sc, online, o) == online /\ SyncService_resolve_ok(sc, o)

SyncService_initialize(sc, online, o) ==
  IF ~online THEN [sc EXCEPT !.offline_mode = TRUE]
  ELSE IF SyncService_resolve_ok(sc, o)
  THEN [SyncService_resolve_user_id(sc, o) EXCEPT !.initialized = TRUE,
                                                  !.offline_mode = FALSE,
                                                  !.sync_failures = 0]
  ELSE [sc EXCEPT !.initialized = TRUE, !.offline_mode = TRUE]

\* SyncService._cleanup_stale_active_sessions: every active-session document of
\* this computer is deleted
cleanup_stale_active_sessions(sc, o) ==
  IF sc.user_id = NoUser \/ ~o.cleanup_ok \/ ~o.cleanup_del_ok THEN sc
  ELSE [sc EXCEPT !.cloud[sc.user_id].active = {}]

\* SyncService.sync_computer_registration
sync_computer_registration(sc, online, o) ==
  LET ok == sc.initialized \/ SyncService_initialize_ok(sc, online, o)
      s0 == IF sc.initialized THEN sc ELSE SyncService_initialize(sc, online, o)
  IN IF ~ok THEN s0
     ELSE IF s0.computer_synced THEN cleanup_stale_active_sessions(s0, o)
     ELSE IF s0.user_id = NoUser \/ ~o.reg_ok
     THEN [s0 EXCEPT !.error_logs = Database_log_error(@)]
     ELSE cleanup_stale_active_sessions(
            [s0 EXCEPT !.cloud[s0.user_id].computer = "online", !.computer_synced = TRUE], o)

\* SyncService.sync_sessions: [s, n] is the state after the call and its return value
sync_sessions(sc, o) ==
  LET open == Database_get_active_sessions(sc.session_logs)
      done == Database_get_unsynced_sessions(sc.session_logs, SyncBatchSize)
      failed == [s |-> [sc EXCEPT !.error_logs = Database_log_error(@)], n |-> 0]
  IN IF open = {} /\ done = {} THEN [s |-> sc, n |-> 0]
     ELSE IF sc.user_id = NoUser THEN failed
     ELSE IF open # {} /\ ~o.active_ok THEN failed
     ELSE LET s1 == [sc EXCEPT !.cloud[sc.user_id].active = @ \cup open]
          IN IF done = {} THEN [s |-> s1, n |-> Cardinality(open)]
             ELSE IF ~o.hist_ok
             THEN [s |-> [s1 EXCEPT !.error_logs = Database_log_error(@)], n |-> 0]
             ELSE [s |-> [s1 EXCEPT !.cloud[sc.user_id].history = @ \cup done,
                                    !.cloud[sc.user_id].active =
                                       IF o.del_ok THEN @ \ done ELSE @,
                                    !.session_logs = Database_mark_sessions_synced(@, done)],
                   n |-> Cardinality(open) + Cardinality(done)]

\* SyncService.sync_applications
sync_applications(sc, o) ==
  LET apps == Database_get_unsynced_applications(sc.application_logs, SyncBatchSize)
  IN IF apps = {} THEN [s |-> sc, n |-> 0]
     ELSE IF sc.user_id = NoUser \/ ~o.app_ok
     THEN [s |-> [sc EXCEPT !.error_logs = Database_log_error(@)], n |-> 0]
     ELSE [s |-> [sc EXCEPT !.cloud[sc.user_id].activities = @ \cup apps,
                            !.application_logs = Database_mark_applications_synced(@, apps)],
           n |-> Cardinality(apps)]

sync_websites_mark_unwritten(sc, o) ==
  LET sites == Database_get_unsynced_websites(sc.website_logs, SyncBatchSize)
  IN IF sites = {} THEN [s |-> sc, n |-> 0]
     ELSE IF sc.user_id = NoUser \/ ~o.web_ok
     THEN [s |-> [sc EXCEPT !.error_logs = Database_log_error(@),
                            !.website_logs = Database_mark_websites_synced(@, sites)],
           n |-> 0]
     ELSE [s |-> [sc EXCEPT !.cloud[sc.user_id].websites = @ \cup sites,
                            !.website_logs = Database_mark_websites_synced(@, sites)],
           n |-> Cardinality(sites)]

\* SyncService.sync_websites
sync_websites(sc, o) ==
  LET sites == Database_get_unsynced_websites(sc.website_logs, SyncBatchSize)
  IN IF sites = {} THEN [s |-> sc, n |-> 0]
     ELSE IF sc.user_id = NoUser \/ ~o.web_ok
     THEN [s |-> [sc EXCEPT !.error_logs = Database_log_error(@)], n |-> 0]
     ELSE [s |-> [sc EXCEPT !.cloud[sc.user_id].websites = @ \cup sites,
                            !.website_logs = Database_mark_websites_synced(@, sites)],
           n |-> Cardinality(sites)]

\* sync_failures += 1, saturating at the bound
ScriptBump(n) == IF n < MaxFailures THEN n + 1 ELSE n

\* SyncService.sync_all
SyncService_sync_all(sc, online, o) ==
  LET reconnect == sc.offline_mode \/ ~sc.initialized
      s0 == IF reconnect THEN SyncService_initialize(sc, online, o) ELSE sc
  IN IF sc.offline_mode /\ ~online THEN sc
     ELSE IF reconnect /\ ~SyncService_initialize_ok(sc, online, o)
     THEN [s0 EXCEPT !.sync_failures = ScriptBump(@)]
     ELSE LET r1 == sync_sessions(s0, o)
              r2 == sync_applications(r1.s, o)
              r3 == sync_websites(r2.s, o)
          IN IF r1.n + r2.n + r3.n > 0 THEN [r3.s EXCEPT !.sync_failures = 0] ELSE r3.s

\* SyncService.update_computer_status
update_computer_status(sc, status, o) ==
  IF sc.initialized /\ sc.user_id # NoUser /\ o.status_ok
  THEN [sc EXCEPT !.cloud[sc.user_id].computer = status]
  ELSE sc

\* PCMonitoringAgent._perform_sync
perform_sync(sc, t, online, o) ==
  IF ~sc.is_online THEN sc
  ELSE LET s1 == sync_computer_registration(sc, online, o)
           s2 == SyncService_sync_all(s1, online, o)
           s3 == update_computer_status(s2, "online", o)
       IN [s3 EXCEPT !.last_sync_time = t]

\* InternetService.check_connection: the connection-restored callback
\* (_on_connection_restored) runs before is_online is assigned
check_connection(sc, t, online, o) ==
  LET s1 == IF online /\ ~sc.last_check_result THEN perform_sync(sc, t, online, o) ELSE sc
  IN [s1 EXCEPT !.last_check_result = online, !.is_online = online]

ScriptLog(op) == [op |-> op, calls |-> {}, probe |-> "none"]

\* PCMonitoringAgent.start: initialize(), the session start and the initial sync
ScriptStart(Fl) ==
  /\ ~script.up
  /\ script.session_seq < MaxScriptSessions
  /\ \E o \in ScriptOutcomes(Fl) :
       LET s0 == [InMemory(script) EXCEPT !.up = TRUE, !.computer = register_computer(@),
                                          !.monitoring_loop = "running"]
           s1 == SessionMonitor_start_session(s0, now)
           s2 == check_connection(s1, now, net, o)
           s3 == IF net THEN perform_sync(s2, now, net, o) ELSE s2
       IN /\ s3.error_logs <= MaxErrors
          /\ script' = s3
  /\ log' = ScriptLog("script_start")
  /\ UNCHANGED <<now, net, db, config, app, sync, agent, remote, cmds, returned>>

\* one iteration of PCMonitoringAgent._monitoring_loop; the loop sleeps
\* MONITORING_INTERVAL between two iterations
ScriptMonitoringLoop(w, f) ==
  /\ script.up
  /\ script.monitoring_loop = "running"
  /\ script.last_iteration < now
  /\ LET s1 == MonitoringLoopIteration(script, w, now, f)
     IN /\ s1.session_seq <= MaxScriptSessions
        /\ s1.app_seq <= MaxScriptApps
        /\ s1.web_seq <= MaxScriptSites
        /\ s1.error_logs <= MaxErrors
        /\ script' = s1
  /\ log' = ScriptLog("script_monitoring_loop")
  /\ UNCHANGED <<now, net, db, config, app, sync, agent, remote, cmds, returned>>

\* one iteration of PCMonitoringAgent._sync_loop; due tells whether
\* SYNC_INTERVAL has passed since the last sync, which the clock decides unless
\* the last sync fell into the current instant
ScriptSyncLoop(due, Fl) ==
  /\ script.up
  /\ script.monitoring_loop = "running"
  /\ (script.last_sync_time = -1 \/ script.last_sync_time < now) => due
  /\ \E o \in ScriptOutcomes(Fl) :
       LET s1 == check_connection(script, now, net, o)
           s2 == IF net /\ due THEN perform_sync(s1, now, net, o) ELSE s1
       IN /\ s2.error_logs <= MaxErrors
          /\ script' = s2
  /\ log' = ScriptLog("script_sync_loop")
  /\ UNCHANGED <<now, net, db, config, app, sync, agent, remote, cmds, returned>>

\* PCMonitoringAgent.stop: the monitors stop, the session ends, the final sync
ScriptStop(Fl) ==
  /\ script.up
  /\ \E o \in ScriptOutcomes(Fl) :
       LET s1 == [ApplicationMonitor_stop(script, now, "ok") EXCEPT !.last_url = ""]
           s2 == SessionMonitor_end_session(s1, now)
           s3 == check_connection(s2, now, net, o)
           s4 == IF net
                 THEN update_computer_status(perform_sync(s3, now, net, o), "offline", o)
                 ELSE s3
       IN /\ s4.error_logs <= MaxErrors
          /\ script' = [InMemory(s4) EXCEPT !.up = FALSE, !.monitoring_loop = "none"]
  /\ log' = ScriptLog("script_stop")
  /\ UNCHANGED <<now, net, db, config, app, sync, agent, remote, cmds, returned>>

\* the script agent is killed or the machine loses power
ScriptCrash ==
  /\ script.up
  /\ script' = [InMemory(script) EXCEPT !.up = FALSE, !.monitoring_loop = "none"]
  /\ log' = ScriptLog("script_crash")
  /\ UNCHANGED <<now, net, db, config, app, sync, agent, remote, cmds, returned>>

\* another user logs in to the workstation
SwitchOsUser(u) ==
  /\ u # script.os_user
  /\ script' = [script EXCEPT !.os_user = u]
  /\ log' = EnvLog
  /\ UNCHANGED <<now, net, db, config, app, sync, agent, remote, cmds, returned>>

\* Database.clear_user_link, the unlinking of the agent while it is not running
ClearUserLink ==
  /\ ~script.up
  /\ script.user_link # <<>>
  /\ script' = [script EXCEPT !.user_link = clear_user_link(@)]
  /\ log' = ScriptLog("clear_user_link")
  /\ UNCHANGED <<now, net, db, config, app, sync, agent, remote, cmds, returned>>

\* AGENT_LINKING_CODE of the .env file is edited while the agent is not running
ScriptConfigure(code) ==
  /\ ~script.up
  /\ code # script.code
  /\ script' = [script EXCEPT !.code = code]
  /\ log' = EnvLog
  /\ UNCHANGED <<now, net, db, config, app, sync, agent, remote, cmds, returned>>

\* ------------------------------------------------------------ specification
Init ==
  /\ now = 0
  /\ net \in BOOLEAN
  /\ db = EmptyDb
  /\ config = [mem |-> NoConfig, file |-> NoConfig]
  /\ app = AppDown
  /\ sync = NewSync
  /\ agent = NoAgent
  /\ remote = EmptyRemote
  /\ cmds = [queue |-> <<>>, count |-> 0]
  /\ log = EnvLog
  /\ returned = <<>>
  /\ script = ScriptDown

Next ==
  \/ AppStart(Groups)
  \/ \E code \in Codes : ConnectAccount(code, Groups)
  \/ StartMonitoring(Groups)
  \/ StartCommandPoller
  \/ SyncTick(Groups)
  \/ \E w \in Windows : MonitorTick(w)
  \/ \E c \in 1..MaxUuid : Heartbeat(c, Groups)
  \/ PollCommands(Groups)
  \/ CloseWindow(Groups)
  \/ DisconnectAccount(Groups)
  \/ SettingsDisconnect(Groups)
  \/ Crash
  \/ Tick
  \/ NetFlip
  \/ \E type \in CmdTypes, target \in {0}, kind \in TsKinds :
        QueueCommand(type, target, kind, MaxCmds, MaxCmds)
  \/ \E k \in DOMAIN remote.active : AdjustStartTime(k)

Spec == Init /\ [][Next]_vars

\* The sync engine of one linked installation: the code has been connected in
\* an earlier run (user_link and config.json are written) and the process is
\* not running.
LinkedConfig == [linking_code |-> "code1", user_id |-> "u1"]

InitLinked ==
  /\ now = 0
  /\ net \in BOOLEAN
  /\ db = [EmptyDb EXCEPT !.user_link = <<"u1">>]
  /\ config = [mem |-> LinkedConfig, file |-> LinkedConfig]
  /\ app = AppDown
  /\ sync = NewSync
  /\ agent = NoAgent
  /\ remote = EmptyRemote
  /\ cmds = [queue |-> <<>>, count |-> 0]
  /\ log = EnvLog
  /\ returned = <<>>
  /\ script = ScriptDown

SyncFlaky == {"get", "patch", "hist", "del"}

NextSync ==
  \/ AppStart(SyncFlaky)
  \/ StartMonitoring(SyncFlaky)
  \/ SyncTick(SyncFlaky)
  \/ CloseWindow(SyncFlaky)
  \/ Crash
  \/ Tick
  \/ NetFlip
  \/ \E k \in DOMAIN remote.active : AdjustStartTime(k)

SpecSync == InitLinked /\ [][NextSync]_vars

\* Runs that die with the session open: starts, sync ticks, window closes and
\* kills of a linked installation whose remote calls succeed while the network
\* is up.
NextStale ==
  \/ AppStart({})
  \/ StartMonitoring({})
  \/ SyncTick({})
  \/ CloseWindow({})
  \/ Crash
  \/ Tick
  \/ NetFlip

SpecStale == InitLinked /\ [][NextStale]_vars

\* Archival of completed sessions: the history write and the delete of the
\* active document of a sync tick may fail one by one.
ArchiveFlaky == {"hist", "del"}

NextArchive ==
  \/ AppStart({})
  \/ StartMonitoring({})
  \/ SyncTick(ArchiveFlaky)
  \/ CloseWindow({})
  \/ Tick
  \/ NetFlip

SpecArchive == InitLinked /\ [][NextArchive]_vars

\* The script agent alone: starts, user changes, stops and kills.
NextScript ==
  \/ ScriptStart({})
  \/ ScriptMonitoringLoop(NoWindow, "ok")
  \/ ScriptStop({})
  \/ ScriptCrash
  \/ \E u \in OsUsers : SwitchOsUser(u)
  \/ Tick

SpecScript == Init /\ [][NextScript]_vars

\* Remote pause and resume: the command poller of a linked installation and
\* the controller queueing stop and start commands.
PauseFlaky == {"clear"}

NextPause ==
  \/ AppStart(PauseFlaky)
  \/ StartMonitoring(PauseFlaky)
  \/ StartCommandPoller
  \/ SyncTick(PauseFlaky)
  \/ PollCommands(PauseFlaky)
  \/ CloseWindow(PauseFlaky)
  \/ NetFlip
  \/ \E type \in {"stop_monitoring", "start_monitoring"} :
        QueueCommand(type, 0, "utc", MaxCmds, MaxCmds)

SpecPause == InitLinked /\ [][NextPause]_vars

\* Commands and the poller start: the controller queues commands with any kind
\* of timestamp, before and after the poller starts.
NextCmd ==
  \/ AppStart({})
  \/ StartMonitoring({})
  \/ StartCommandPoller
  \/ PollCommands({"cmd_del"})
  \/ Tick
  \/ \E type \in {"stop_monitoring", "start_monitoring"}, kind \in TsKinds :
        QueueCommand(type, 0, kind, MaxCmds, MaxCmds)

SpecCmd == InitLinked /\ [][NextCmd]_vars

\* A long run of the command poller: the controller queues one command after
\* the other, and the delete of a command may fail.
NextLongPoll ==
  \/ AppStart({})
  \/ StartMonitoring({})
  \/ StartCommandPoller
  \/ PollCommands({"cmd_del"})
  \/ QueueCommand("refresh", 0, "utc", ProcessedCap + MaxLongCmds, MaxPending)

SpecLongPoll == InitLinked /\ [][NextLongPoll]_vars

\* Catching up after an offline start: sessions, application logs and file
\* edits queue up locally and the writes of a tick may fail one by one.
CatchUpFlaky == {"put_comp", "hist", "app", "file"}

NextCatchUp ==
  \/ AppStart({})
  \/ StartMonitoring({})
  \/ SyncTick(CatchUpFlaky)
  \/ MonitorTick("w2")
  \/ CloseWindow({})
  \/ NetFlip

SpecCatchUp == InitLinked /\ [][NextCatchUp]_vars

\* The two local stores, each under its own agent: an installation runs the
\* GUI agent or the script agent, and the network and the clock are shared.
GuiInstalled == script.computer = <<>>
ScriptInstalled == ~app.up /\ db.computer = <<>>

NextStores ==
  \/ GuiInstalled /\ AppStart({})
  \/ GuiInstalled /\ StartMonitoring({})
  \/ GuiInstalled /\ SyncTick({})
  \/ GuiInstalled /\ MonitorTick("w1")
  \/ GuiInstalled /\ CloseWindow({})
  \/ ScriptInstalled /\ ScriptStart({})
  \/ ScriptInstalled /\ \E w \in {BrowserWindow, EditorWindow} : ScriptMonitoringLoop(w, "ok")
  \/ ScriptInstalled /\ ScriptSyncLoop(TRUE, {})
  \/ ScriptInstalled /\ ScriptStop({})
  \/ script.up /\ Tick
  \/ NetFlip

SpecStores == InitLinked /\ [][NextStores]_vars

\* The end of a session and the command poller: the settings dialog ends the
\* session by a full stop while the controller keeps queueing commands.
NextEnded ==
  \/ AppStart({})
  \/ StartMonitoring({})
  \/ StartCommandPoller
  \/ SyncTick({})
  \/ PollCommands({})
  \/ SettingsDisconnect({})
  \/ NetFlip
  \/ \E type \in {"stop_monitoring", "start_monitoring"} :
        QueueCommand(type, 0, "utc", MaxCmds, MaxCmds)

SpecEnded == InitLinked /\ [][NextEnded]_vars

\* The heartbeat during a remote pause: the controller pauses and resumes the
\* session while the heartbeat thread runs (its patch may fail), time passes,
\* and the window may be closed.
NextHeartbeat ==
  \/ AppStart({})
  \/ StartMonitoring({})
  \/ StartCommandPoller
  \/ SyncTick({})
  \/ \E c \in 1..MaxUuid : Heartbeat(c, {"status"})
  \/ PollCommands({})
  \/ ~app.monitoring /\ CloseWindow({})
  \/ Tick
  \/ \E type \in {"stop_monitoring", "start_monitoring"} :
        QueueCommand(type, 0, "utc", MaxCmds, 1)

\* the heartbeat thread sleeps 30 seconds and then runs again
SpecHeartbeat ==
  /\ InitLinked /\ [][NextHeartbeat]_vars
  /\ WF_vars(\E c \in 1..MaxUuid : Heartbeat(c, {"status"}))

\* Application tracking and the remote pause: the foreground window changes
\* while the controller pauses and resumes the session.
NextTracking ==
  \/ AppStart({})
  \/ StartMonitoring({})
  \/ StartCommandPoller
  \/ \E w \in Windows : MonitorTick(w)
  \/ PollCommands({})
  \/ Tick
  \/ \E type \in {"stop_monitoring", "start_monitoring"} :
        QueueCommand(type, 0, "utc", MaxCmds, MaxCmds)

SpecTracking == InitLinked /\ [][NextTracking]_vars

\* The account link of an installation of either agent: codes are connected,
\* the account is disconnected by both paths of the GUI agent, the linking
\* code of the script agent is edited and its link is cleared.
NextAccount ==
  \/ GuiInstalled /\ AppStart({})
  \/ GuiInstalled /\ \E code \in Codes : ConnectAccount(code, {})
  \/ GuiInstalled /\ StartMonitoring({})
  \/ GuiInstalled /\ MonitorTick("w2")
  \/ GuiInstalled /\ DisconnectAccount({})
  \/ GuiInstalled /\ SettingsDisconnect({})
  \/ ScriptInstalled /\ ScriptStart({})
  \/ ScriptInstalled /\ ScriptCrash
  \/ ScriptInstalled /\ ClearUserLink
  \/ ScriptInstalled /\ \E code \in Codes \cup {NoUser} : ScriptConfigure(code)
  \/ NetFlip

SpecAccount == InitLinked /\ [][NextAccount]_vars

\* The loops of the script agent under failures: the local store rejects the
\* writes of one table or of every table, and remote calls of a sync fail.
LoopFlaky == {"active"}

NextLoops ==
  \/ ScriptStart({})
  \/ \E w \in {BrowserWindow, EditorWindow}, f \in StoreFaults : ScriptMonitoringLoop(w, f)
  \/ ScriptSyncLoop(TRUE, LoopFlaky)
  \/ ScriptStop({})
  \/ Tick

SpecLoops == Init /\ [][NextLoops]_vars

\* Commands of every type: the controller queues stop, start and other
\* commands, and the delete of an executed command may fail.
NextUnknown ==
  \/ AppStart({})
  \/ StartMonitoring({})
  \/ StartCommandPoller
  \/ PollCommands({"cmd_del"})
  \/ NetFlip
  \/ \E type \in CmdTypes : QueueCommand(type, 0, "utc", MaxCmds, MaxCmds)

SpecUnknown == InitLinked /\ [][NextUnknown]_vars

\* A full stop racing with the sync-loop thread: the tick of the sync loop is
\* taken in two steps, and the settings dialog ends the session in between or
\* afterwards.  The network does not change: every call of a behaviour that
\* starts online succeeds.
NextRace ==
  \/ AppStart({})
  \/ StartMonitoring({})
  \/ SyncTickBegin
  \/ SyncTickEnd
  \/ \E w \in Windows : MonitorTick(w)
  \/ SettingsDisconnect({})
  \/ Tick

SpecRace == InitLinked /\ [][NextRace]_vars

\* The threads a stopped agent leaves behind, in one run of the process: the
\* heartbeat threads of agents discarded by a pause and a sync tick in flight
\* go on after the settings dialog has ended the session.
NextThreads ==
  \/ AppStart({})
  \/ StartMonitoring({})
  \/ StartCommandPoller
  \/ PollCommands({})
  \/ SyncTickBegin
  \/ SyncTickEnd
  \/ \E c \in 1..MaxUuid : Heartbeat(c, {})
  \/ SettingsDisconnect({})
  \/ Tick
  \/ \E type \in {"stop_monitoring", "start_monitoring"} :
        QueueCommand(type, 0, "utc", MaxCmds, 1)

SpecThreads == InitLinked /\ [][NextThreads]_vars

\* the sync-loop thread against the main thread inside disconnect_account
NextShared ==
  \/ AppStart({})
  \/ StartMonitoring({})
  \/ MonitorTick("w1")
  \/ SyncTickBegin
  \/ SyncTickEnd
  \/ DisconnectAccountBegin({"hist", "apps"})
  \/ DisconnectAccountEnd
  \/ Crash
  \/ Tick

SpecShared == InitLinked /\ [][NextShared]_vars

\* one installation without an account switch: the threads' calls of
\* get_computer_id against the main thread's
NextComputer ==
  \/ AppStart({})
  \/ StartMonitoring({})
  \/ StartCommandPoller
  \/ PollCommands({})
  \/ SyncTick({})
  \/ \E th \in Threads : ThreadGetComputerId(th)
  \/ CloseWindow({})
  \/ Crash
  \/ \E type \in {"stop_monitoring", "start_monitoring"} :
        QueueCommand(type, 0, "utc", MaxCmds, 1)

SpecComputer == InitLinked /\ [][NextComputer]_vars

\* the status patches of the sync loop of one FirebaseSync object: ticks in
\* one piece and in two, foreground changes that give the ticks something to
\* push, a remote pause, and the clock
NextStatus ==
  \/ AppStart({})
  \/ StartMonitoring({})
  \/ StartCommandPoller
  \/ PollCommands({})
  \/ SyncTick({})
  \/ SyncTickBegin
  \/ SyncTickEnd
  \/ \E w \in Windows : MonitorTick(w)
  \/ Tick
  \/ QueueCommand("stop_monitoring", 0, "utc", 1, 1)

SpecStatus == InitLinked /\ [][NextStatus]_vars

\* The synced marks of both sync engines, each under its own agent, with
\* remote writes that fail one by one while the network is up.
MarksFlaky == {"hist", "app", "file"}
ScriptMarksFlaky == {"hist", "app", "web"}

NextMarks ==
  \/ GuiInstalled /\ AppStart({})
  \/ GuiInstalled /\ StartMonitoring({})
  \/ GuiInstalled /\ SyncTick(MarksFlaky)
  \/ GuiInstalled /\ MonitorTick("w2")
  \/ GuiInstalled /\ CloseWindow(MarksFlaky)
  \/ ScriptInstalled /\ ScriptStart({})
  \/ ScriptInstalled /\ ScriptMonitoringLoop(BrowserWindow, "ok")
  \/ ScriptInstalled /\ ScriptSyncLoop(TRUE, ScriptMarksFlaky)
  \/ ScriptInstalled /\ ScriptStop(ScriptMarksFlaky)
  \/ script.up /\ Tick

SpecMarks == InitLinked /\ [][NextMarks]_vars

\* MonitoringAgent._sync_loop: `while self.running` of the live agent's thread
SyncLoopRunning == app.up /\ agent.live /\ agent.running

\* ENABLED <<SyncTick({})>>_vars as a state predicate: the loop runs and its
\* next iteration changes the store, the sync state, the remote tree or the
\* calls issued
SyncTickEnabled ==
  /\ SyncLoopRunning
  /\ \E o \in Outcomes(SyncCalls, {}, agent.resume_mode, FALSE) :
       LET W == sync_all(World, config.mem, agent.current_activity, agent.stopping,
                         agent.resume_mode, net, now, o)
       IN <<W.db, W.sync, W.remote, [op |-> "sync_all", calls |-> W.calls, probe |-> W.probe]>>
            # <<db, sync, remote, log>>

\* Weak fairness of the sync loop, WF_vars(SyncTick({})) written out: after
\* time.sleep(sync_interval) the loop thread of a running agent takes its next
\* iteration, so an iteration that stays possible is taken again and again.
SyncLoopFair == []<>~SyncTickEnabled \/ []<><<SyncTick({})>>_vars

\* The sync loop under weak fairness.  Runs end with or without connectivity;
\* the remote calls fail while the network is down.
NextLive ==
  \/ AppStart({})
  \/ StartMonitoring({})
  \/ SyncTick({})
  \/ \E w \in Windows : MonitorTick(w)
  \/ CloseWindow({})
  \/ NetFlip

SpecLive == InitLinked /\ [][NextLive]_vars /\ SyncLoopFair

\* An installation whose config.json names a linking code while the store
\* holds no saved link (user_link is empty).  The code is either registered
\* and active, or one that agentCodes/ does not resolve (unknown, or inactive:
\* _resolve_user_id returns False for both alike).
ExpiredCode == "expired"

InitUnlinked ==
  /\ now = 0
  /\ net \in BOOLEAN
  /\ db = EmptyDb
  /\ config \in {[mem |-> c, file |-> c] :
                   c \in {[linking_code |-> code, user_id |-> "u1"] :
                            code \in {"code1", ExpiredCode}}}
  /\ app = AppDown
  /\ sync = NewSync
  /\ agent = NoAgent
  /\ remote = EmptyRemote
  /\ cmds = [queue |-> <<>>, count |-> 0]
  /\ log = EnvLog
  /\ returned = <<>>
  /\ script = ScriptDown

NextUnlinked ==
  \/ AppStart({})
  \/ StartMonitoring({})
  \/ StartCommandPoller
  \/ SyncTick({})
  \/ MonitorTick("w2")
  \/ \E c \in 1..MaxUuid : Heartbeat(c, {})
  \/ PollCommands({})
  \/ CloseWindow({})
  \/ Crash
  \/ NetFlip

SpecUnlinked == InitUnlinked /\ [][NextUnlinked]_vars

\* The session API of the two stores called directly, with any row id: an id
\* of an open row, of a closed row, or one that is not in the table.
SessionIds == 1..(MaxSessions + 1)

CallLogSessionStart ==
  /\ db.session_seq < MaxSessions
  /\ db' = [db EXCEPT !.session_logs = log_session_start(@, db.session_seq, 1, OsUser, now),
                      !.session_seq = @ + 1]
  /\ log' = [op |-> "log_session_start", calls |-> {}, probe |-> "none"]
  /\ UNCHANGED <<now, net, config, app, sync, agent, remote, cmds, returned, script>>

CallLogSessionEnd(id) ==
  /\ db' = [db EXCEPT !.session_logs = log_session_end(@, id, now)]
  /\ log' = [op |-> "log_session_end",
             calls |-> {Call("LOCAL", "session_logs", id, 0, TRUE)}, probe |-> "none"]
  /\ UNCHANGED <<now, net, config, app, sync, agent, remote, cmds, returned, script>>

CallStartSession ==
  /\ script.session_seq < MaxSessions
  /\ script' = [script EXCEPT
                  !.session_logs = start_session(@, script.session_seq, 1, OsUser, now),
                  !.session_seq = @ + 1]
  /\ log' = [op |-> "start_session", calls |-> {}, probe |-> "none"]
  /\ UNCHANGED <<now, net, db, config, app, sync, agent, remote, cmds, returned>>

CallEndSession(id) ==
  /\ script' = [script EXCEPT !.session_logs = end_session(@, id, now)]
  /\ log' = [op |-> "end_session",
             calls |-> {Call("LOCAL", "session_logs", id, 0, TRUE)}, probe |-> "none"]
  /\ UNCHANGED <<now, net, db, config, app, sync, agent, remote, cmds, returned>>

NextSessionApi ==
  \/ CallLogSessionStart
  \/ \E id \in SessionIds : CallLogSessionEnd(id)
  \/ CallStartSession
  \/ \E id \in SessionIds : CallEndSession(id)
  \/ Tick

SpecSessionApi == InitLinked /\ [][NextSessionApi]_vars

\* The duration of one session under the two stores: the same session, begun
\* up to MaxElapsed whole seconds before instant 0, is open in both stores and
\* each store's end function is called on it, at the same instant or not.
InitDuration ==
  /\ now = 0
  /\ net \in BOOLEAN
  /\ \E s \in 0..MaxElapsed :
       LET row == [NewSessionRow(1, OsUser, 0) EXCEPT !.session_start = <<-s>>]
       IN /\ db = [EmptyDb EXCEPT !.session_logs = 1 :> row, !.session_seq = 1]
          /\ script = [ScriptDown EXCEPT !.session_logs = 1 :> row, !.session_seq = 1]
  /\ config = [mem |-> NoConfig, file |-> NoConfig]
  /\ app = AppDown
  /\ sync = NewSync
  /\ agent = NoAgent
  /\ remote = EmptyRemote
  /\ cmds = [queue |-> <<>>, count |-> 0]
  /\ log = EnvLog
  /\ returned = <<>>

NextDuration ==
  \/ CallLogSessionEnd(1)
  \/ CallEndSession(1)
  \/ Tick

SpecDuration == InitDuration /\ [][NextDuration]_vars

\* InternetService.check_connection called on its own: the state of the agent
\* when the call returns, before its caller goes on
CheckConnection ==
  /\ script.up
  /\ \E o \in ScriptOutcomes({}) :
       LET s1 == check_connection(script, now, net, o)
       IN /\ s1.error_logs <= MaxErrors
          /\ script' = s1
  /\ log' = ScriptLog("check_connection")
  /\ UNCHANGED <<now, net, db, config, app, sync, agent, remote, cmds, returned>>

\* The script agent while the network comes and goes: the monitors record,
\* the connectivity is checked, the sync loop runs.
NextRestored ==
  \/ ScriptStart({})
  \/ ScriptMonitoringLoop(BrowserWindow, "ok")
  \/ CheckConnection
  \/ ScriptSyncLoop(TRUE, {})
  \/ ScriptStop({})
  \/ NetFlip
  \/ Tick

SpecRestored == Init /\ [][NextRestored]_vars

\* ------------------------------------------------------------------ claims
ThisComputer == get_computer_id(db).id

\* the remote call the last handler issued with this verb, node and ids
Issued(calls, verb, node, a, b) == \E ok \in BOOLEAN : Call(verb, node, a, b, ok) \in calls

\* C1: a sync tick leaves unchanged the startTime of every active-session
\* document of this computer that exists when the tick starts, for every
\* outcome of the tick's remote calls, the read of the active list included.
C1_NoStartTimeClobber ==
  [][log'.op = "sync_all" =>
       \A k \in ActiveKeysOf(remote, ThisComputer) \cap DOMAIN remote'.active :
          remote'.active[k].startTime = remote.active[k].startTime]_vars

\* C2 as stated: after a sync tick in which the history write of a completed
\* session succeeds, the session is marked synced and no active-session
\* document of this computer remains, under any key.
C2_NoActiveDocumentRemains ==
  [][log'.op = "sync_all" =>
       \A id \in Ids(db.session_logs) :
          Call("PUT", "history", ThisComputer, id, TRUE) \in log'.calls =>
             /\ db'.session_logs[id].synced = 1
             /\ ActiveKeysOf(remote', ThisComputer) = {}]_vars

\* C2 amended: after a sync tick in which the history write of a completed
\* session succeeds, the session is marked synced; and when the tick's delete
\* of the document computerId_sessionId succeeds too, no document remains
\* under that key.
C2_MarkedAndOwnDocumentDeleted ==
  [][log'.op = "sync_all" =>
       \A id \in Ids(db.session_logs) :
          Call("PUT", "history", ThisComputer, id, TRUE) \in log'.calls =>
             /\ db'.session_logs[id].synced = 1
             /\ Issued(log'.calls, "DELETE", "active", ThisComputer, id)
             /\ (Call("DELETE", "active", ThisComputer, id, TRUE) \in log'.calls
                   => SessKey(ThisComputer, id) \notin DOMAIN remote'.active)]_vars

\* a sync tick has just archived a session whose history write succeeded and
\* whose active-document delete failed, with the document still there
C2_Witness ==
  /\ log.op = "sync_all"
  /\ \E id \in Ids(db.session_logs) :
        /\ Call("PUT", "history", ThisComputer, id, TRUE) \in log.calls
        /\ Call("DELETE", "active", ThisComputer, id, FALSE) \in log.calls
        /\ db.session_logs[id].synced = 1
        /\ SessKey(ThisComputer, id) \in DOMAIN remote.active

\* C3: when log_session_start runs while rows are open, afterwards the only
\* open row is the inserted one and every row that was open has session_end =
\* session_start, duration_minutes = 0 and synced = 1.
C3_StaleSessionClosure ==
  [][(/\ log'.op = "start_monitoring"
      /\ db'.session_seq = db.session_seq + 1
      /\ get_active_sessions(db.session_logs) # {}) =>
       /\ get_active_sessions(db'.session_logs) = {db'.session_seq}
       /\ \A id \in get_active_sessions(db.session_logs) :
             /\ db'.session_logs[id].session_end = db.session_logs[id].session_start
             /\ db'.session_logs[id].duration_minutes = 0
             /\ db'.session_logs[id].synced = 1]_vars

\* a start has just closed the open row of a run that died: the row is marked
\* synced although it never reached the remote history
C3_Witness ==
  /\ log.op = "start_monitoring"
  /\ get_active_sessions(db.session_logs) = {db.session_seq}
  /\ \E id \in Ids(db.session_logs) :
        /\ id # db.session_seq
        /\ db.session_logs[id].session_end = db.session_logs[id].session_start
        /\ db.session_logs[id].duration_minutes = 0
        /\ db.session_logs[id].synced = 1
        /\ SessKey(ThisComputer, id) \notin DOMAIN remote.history

\* C10: a window close without connectivity leaves the ended row with its real
\* session_end and duration and synced = 0; a later start does not alter a row
\* that has an end; and a sync tick with the network up issues the history
\* write of every such row and, the write getting through, stores the row in
\* the history and marks it synced.
C10_UnsyncedEndIsRecovered ==
  [][/\ (log'.op = "on_close" /\ Stopping /\ agent.current_session_id # 0 /\ ~net =>
           LET id == agent.current_session_id
               row == db.session_logs[id]
           IN db'.session_logs[id] =
                 [row EXCEPT !.session_end = isoformat(DateTime(now)),
                             !.duration_minutes =
                                MinutesTrunc(DateTime(now), fromisoformat(row.session_start)),
                             !.synced = 0])
     /\ (log'.op = "start_monitoring" =>
           \A id \in Ids(db.session_logs) :
              db.session_logs[id].session_end # NULL
                 => db'.session_logs[id] = db.session_logs[id])
     /\ (log'.op = "sync_all" /\ net =>
           \A id \in get_unsynced_sessions(db.session_logs, SyncLimit) :
              /\ Issued(log'.calls, "PUT", "history", ThisComputer, id)
              /\ (Call("PUT", "history", ThisComputer, id, TRUE) \in log'.calls =>
                    /\ db'.session_logs[id].synced = 1
                    /\ SessKey(ThisComputer, id) \in DOMAIN remote'.history
                    /\ remote'.history[SessKey(ThisComputer, id)]
                          = HistoryDoc(db.session_logs[id])))]_vars

\* the sync tick of a later run has just written to the history a session that
\* an earlier run ended and could not sync
C10_Witness ==
  /\ log.op = "sync_all"
  /\ agent.current_session_id # 0
  /\ \E id \in Ids(db.session_logs) :
        /\ id < agent.current_session_id
        /\ Call("PUT", "history", ThisComputer, id, TRUE) \in log.calls
        /\ db.session_logs[id].synced = 1
        /\ db.session_logs[id].session_end # NULL
        /\ remote.history[SessKey(ThisComputer, id)] = HistoryDoc(db.session_logs[id])

\* C4: in every state of either agent at most one session_logs row of a
\* computer has session_end = null, a crash with an open session followed by a
\* restart and a new session start included.
C4_AtMostOneOpenSession ==
  /\ Cardinality(get_active_sessions(db.session_logs)) <= 1
  /\ Cardinality(get_active_sessions(script.session_logs)) <= 1

\* a remote pause, a remote resume, or a sync tick of a resumed agent
PauseResumeStep ==
  \/ log'.op = "poll_commands" /\ app'.monitoring # app.monitoring
  \/ log'.op = "sync_all" /\ agent.resume_mode

\* C5: a remote pause, a remote resume and the sync ticks of the resumed agent
\* insert no session row, leave the open row open, and neither delete the
\* active-session document of the computer nor add a second one: the one
\* document of the computer stays in place.
C5_PauseResumeKeepsOneDocument ==
  [][PauseResumeStep =>
       /\ Ids(db'.session_logs) = Ids(db.session_logs)
       /\ get_active_sessions(db'.session_logs) = get_active_sessions(db.session_logs)
       /\ (Cardinality(ActiveKeysOf(remote, ThisComputer)) = 1
             => ActiveKeysOf(remote', ThisComputer) = ActiveKeysOf(remote, ThisComputer))]_vars

\* C6: check_commands returns a command id at most once in a run of the
\* poller, however many commands it has processed.
C6_CommandExecutedAtMostOnce == \A id \in DOMAIN returned : returned[id] <= 1

\* C7: check_commands never returns a command that was queued before the
\* command poller started, whatever its timestamp field holds.
C7_StaleCommandNeverReturned ==
  [][\A id \in DOMAIN cmds.queue :
        Count(returned', id) > Count(returned, id)
           => ~(cmds.queue[id].queued_at < app.poller_start)]_vars

\* the records a sync tick finds queued: completed sessions, closed application
\* logs and file edits that are not synced, up to the batch limit
QueuedSessions == get_unsynced_sessions(db.session_logs, SyncLimit)
QueuedApplications == get_unsynced_applications(db.application_logs, SyncLimit)
QueuedFileEdits == get_unsynced_file_edits(db.file_edits, SyncLimit)

\* a sync tick of a process that started offline and has not been online yet,
\* its connectivity probe giving the answer p
CatchUpTick(p) == log'.op = "sync_all" /\ sync.offline_mode /\ log'.probe = p

InSession == app.up /\ ~app.pending_start /\ get_active_sessions(db.session_logs) # {}

\* C9: when the window is closed while a session is Active or Paused, the
\* session row gets session_end and a duration; and when the remote calls of
\* the close succeed, the session is in the remote history and the computer is
\* marked offline.
C9_EndFromActiveOrPaused ==
  [][log'.op = "on_close" /\ InSession =>
       \A id \in get_active_sessions(db.session_logs) :
          /\ db'.session_logs[id].session_end # NULL
          /\ db'.session_logs[id].duration_minutes # NULLINT
          /\ (net /\ (\A c \in log'.calls : c.ok) =>
                /\ SessKey(ThisComputer, id) \in DOMAIN remote'.history
                /\ ThisComputer \in DOMAIN remote'.computers
                /\ remote'.computers[ThisComputer].status = "offline")]_vars

\* the limits a caller can pass: no limit (negative), none, some, the batch size
Limits == {-1, 0, 1, 2, SyncLimit}

UnsyncedClosedSession(sl, id) == sl[id].synced = 0 /\ sl[id].session_end # NULL
UnsyncedClosedApplication(al, id) == al[id].synced = 0 /\ al[id].end_time # NULL

\* C11: in every reachable state of either store and for every limit,
\* get_unsynced_sessions returns only rows with synced = 0 and session_end not
\* null, and get_unsynced_applications only rows with synced = 0 and end_time
\* not null (LocalDatabase and Database).
C11_SyncEligibilityFilter ==
  \A limit \in Limits :
     /\ \A id \in get_unsynced_sessions(db.session_logs, limit) :
           UnsyncedClosedSession(db.session_logs, id)
     /\ \A id \in get_unsynced_applications(db.application_logs, limit) :
           UnsyncedClosedApplication(db.application_logs, id)
     /\ \A id \in Database_get_unsynced_sessions(script.session_logs, limit) :
           UnsyncedClosedSession(script.session_logs, id)
     /\ \A id \in Database_get_unsynced_applications(script.application_logs, limit) :
           UnsyncedClosedApplication(script.application_logs, id)

\* the script agent's store holds an open session, an open application log and
\* a closed unsynced one that the query returns, and a limit cuts the result
C11_Witness ==
  /\ \E id \in Ids(script.session_logs) : script.session_logs[id].session_end = NULL
  /\ \E id \in Ids(script.application_logs) : script.application_logs[id].end_time = NULL
  /\ Database_get_unsynced_applications(script.application_logs, SyncLimit) # {}
  /\ Database_get_unsynced_applications(script.application_logs, 0) = {}
  /\ \E id \in Ids(script.session_logs) : script.session_logs[id].synced = 1

\* the step ends the open session row id of the table (sl before, sl2 after)
EndsSession(sl, sl2, id) ==
  /\ id \in Ids(sl) /\ id \in Ids(sl2)
  /\ sl[id].session_end = NULL
  /\ sl2[id].session_end # NULL

\* microseconds between session_start and session_end of a closed row
ElapsedMicros(row) ==
  MicrosBetween(fromisoformat(row.session_end), fromisoformat(row.session_start))

\* C12: a session ended (by LocalDatabase.log_session_end or by
\* Database.end_session) less than 60 seconds after its start gets
\* duration_minutes = 1, never 0.
C12_DurationFloor ==
  [][/\ log'.op # "start_monitoring" =>
          \A id \in Ids(db.session_logs) :
             /\ EndsSession(db.session_logs, db'.session_logs, id)
             /\ ElapsedMicros(db'.session_logs[id]) < 60 * 1000000
             => db'.session_logs[id].duration_minutes = 1
     /\ \A id \in Ids(script.session_logs) :
           /\ EndsSession(script.session_logs, script'.session_logs, id)
           /\ ElapsedMicros(script'.session_logs[id]) < 60 * 1000000
           => script'.session_logs[id].duration_minutes = 1]_vars

\* C13: register_computer (script agent) and get_computer_id (GUI agent),
\* called again and again with no account switch in between, return the same
\* computer id and insert a computer row on the first call only: a second and
\* a third call in any reachable state return the id of the first and leave
\* the store as the first left it, and no step of either agent changes a
\* computer row once it exists.
C13_IdempotentRegistration ==
  /\ [](LET r1 == get_computer_id(db)
            r2 == get_computer_id(r1.db)
            r3 == get_computer_id(r2.db)
            c1 == register_computer(script.computer)
        IN /\ r2.id = r1.id /\ r3.id = r1.id
           /\ r2.db = r1.db /\ r3.db = r1.db
           /\ Len(r1.db.computer) = 1
           /\ register_computer(c1) = c1
           /\ register_computer(register_computer(c1)) = c1
           /\ Len(c1) = 1)
  /\ [][/\ (log'.op # "disconnect_account" /\ db.computer # <<>>)
             => db'.computer = db.computer /\ db'.uuid_ctr = db.uuid_ctr
        /\ script.computer # <<>> => script'.computer = script.computer]_vars

\* a second run of the GUI agent has called get_computer_id again (start of
\* monitoring, sync tick) and the table still holds the row of the first run
C13_Witness ==
  /\ db.computer = <<1>>
  /\ db.session_seq = 2
  /\ log.op = "sync_all"

\* C14: in normal (non-resume) mode, every online sync tick that finds a local
\* session open and, in the remote list it reads, an active-session document
\* of this computer issues a PATCH to that document, and a document that is
\* still there after the tick carries the agent's current activity.
C14_ExistingDocumentActivityPatched ==
  [][(/\ log'.op = "sync_all"
      /\ agent.running /\ ~agent.resume_mode /\ ~agent.stopping
      /\ get_active_sessions(db.session_logs) # {}
      /\ Call("GET", "active", 0, 0, TRUE) \in log'.calls)
     => \A k \in ActiveKeysOf(remote, ThisComputer) :
           /\ Issued(log'.calls, "PATCH", "active", k[1], k[2])
           /\ k \in DOMAIN remote'.active
                => remote'.active[k].currentActivity = agent.current_activity]_vars


\* the session of this run has been ended by a full stop: monitoring is off,
\* no agent is left and the session row it opened is closed
SessionEnded ==
  /\ app.up /\ ~app.monitoring /\ ~agent.live
  /\ db.session_seq > 0
  /\ get_active_sessions(db.session_logs) = {}

\* C15: once the session has been ended by a full stop, a poll of the command
\* queue causes no pause or resume transition, whatever command it returns:
\* monitoring stays off and no agent in resume mode is created.
C15_EndedSessionIgnoresCommands ==
  [][(SessionEnded /\ log'.op = "poll_commands")
     => /\ ~app'.monitoring
        /\ ~(agent'.live /\ agent'.resume_mode)]_vars


\* the session is Paused: a session row of this run is open and monitoring has
\* been switched off by a remote stop_monitoring
Paused == InSession /\ ~app.monitoring

WritesOffline ==
  \E c \in DOMAIN remote'.computers :
     /\ remote'.computers[c].status = "offline"
     /\ (c \in DOMAIN remote.computers => remote.computers[c] # remote'.computers[c])

\* C16: while the session is Paused, the heartbeat keeps running: every
\* iteration patches the computer document of this computer, a patch that
\* succeeds leaves status 'online' and lastSeen at the instant of the patch, a
\* pause that lasts sees a heartbeat again and again, and no step that stays
\* in the pause writes status 'offline'.
C16_HeartbeatWhilePaused ==
  /\ [][(Paused /\ log'.op = "heartbeat")
        => /\ Issued(log'.calls, "PATCH", "computers", ThisComputer, 0)
           /\ Call("PATCH", "computers", ThisComputer, 0, TRUE) \in log'.calls
                => /\ remote'.computers[ThisComputer].status = "online"
                   /\ remote'.computers[ThisComputer].lastSeen = isoformat(DateTime(now))]_vars
  /\ [][(Paused /\ Paused') => ~WritesOffline]_vars
  /\ [](Paused => ThisComputer \in app.hb /\ sync.user_id # NoUser)
  /\ (<>[]Paused => []<>(log.op = "heartbeat"))

\* a heartbeat has patched the computer document during a pause, at a later
\* instant than the pause began
C16_Witness ==
  /\ Paused /\ log.op = "heartbeat" /\ now > 0
  /\ ThisComputer \in DOMAIN remote.computers
  /\ remote.computers[ThisComputer].status = "online"
  /\ remote.computers[ThisComputer].lastSeen = isoformat(DateTime(now))


\* MonitoringAgent._monitor_loop: the loop condition of the thread that
\* records foreground changes ('while self.running')
MonitorLoopRunning == agent.live /\ agent.running

\* C17: while the session is Paused the monitor loop keeps running, so that a
\* change of the foreground window closes the open application_logs row and
\* opens a new one as in the Active state.
C17_TrackingWhilePaused == Paused => MonitorLoopRunning


\* the user id that a linking code resolves to
UserOf(code) == AgentCodes[code].userId

\* C18: in both stores user_link holds at most one row, and what
\* get_linked_user_id returns changes only with a save or a clear: after a save
\* it is the user id just saved (the one the linking code resolved to), after a
\* clear it is none.
C18_SingleUserLink ==
  /\ [](Len(db.user_link) <= 1 /\ Len(script.user_link) <= 1)
  /\ [][LET before == get_linked_user_id(db.user_link)
            after == get_linked_user_id(db'.user_link)
        IN /\ log'.op = "disconnect_account" => after = NoUser
           /\ (log'.op # "disconnect_account" /\ after # before)
                => /\ log'.op \in {"app_start", "connect_account"}
                   /\ Call("GET", "agentCodes", 0, 0, TRUE) \in log'.calls
                   /\ after = UserOf(config'.mem.linking_code)
                   /\ after = sync'.user_id]_vars
  /\ [][LET before == Database_get_linked_user_id(script.user_link)
            after == Database_get_linked_user_id(script'.user_link)
        IN /\ log'.op = "clear_user_link" => after = NoUser
           /\ (log'.op = "script_start" /\ script.code # NoUser
               /\ script'.initialized /\ ~script'.offline_mode)
                => after = UserOf(script.code) /\ after = script'.user_id
           /\ (log'.op # "clear_user_link" /\ after # before)
                => /\ log'.op = "script_start" /\ script.code # NoUser
                   /\ after = UserOf(script.code)]_vars

\* the script agent has saved the link to u2 over an earlier link
C18_Witness ==
  /\ script.user_link = <<"u2">> /\ script.user_id = "u2"
  /\ script.session_seq >= 2 /\ log.op = "script_start"


\* a connect_account that succeeded: the main screen is shown
Connected == log'.op = "connect_account" /\ app'.screen = "main"

\* C19: when a linking code is connected after a disconnect (the setup screen
\* is shown only then), the agent's user id is the user the code resolves to,
\* and if that user is not the one the store was linked to, the store holds no
\* computer, session, application-log or file-edit row.
C19_AccountSwitchStartsClean ==
  [][Connected
     => /\ sync'.user_id = UserOf(config'.mem.linking_code)
        /\ get_linked_user_id(db.user_link) # UserOf(config'.mem.linking_code)
             => /\ db'.computer = <<>>
                /\ db'.session_logs = <<>>
                /\ db'.application_logs = <<>>
                /\ db'.file_edits = <<>>]_vars


\* C20: an iteration of the monitoring loop or of the sync loop of the script
\* agent never ends its loop, whatever fails in it (a write to the local
\* store, the error-log write, a remote call): the agent is still running
\* afterwards and the loop takes its next iteration.
C20_LoopsSurviveFailures ==
  [][log'.op \in {"script_monitoring_loop", "script_sync_loop"}
     => script'.up /\ script'.monitoring_loop = "running"]_vars


\* a remote call issued by the step failed
CallFailed == \E c \in log'.calls : ~c.ok

\* C21: a sync tick in which a remote call fails counts as a failure: in
\* FirebaseSync.sync_all the counter sync_failures goes up (it is not reset to
\* 0), and in SyncService.sync_all a tick that logged a failed sync step
\* raises sync_failures and leaves the service in offline mode.
C21_FailedCallCountsAsFailure ==
  /\ [][(log'.op = "sync_all" /\ CallFailed)
        => sync'.sync_failures = Bump(sync.sync_failures)]_vars
  /\ [][(log'.op = "script_sync_loop" /\ script'.error_logs > script.error_logs)
        => /\ script'.sync_failures = ScriptBump(script.sync_failures)
           /\ script'.offline_mode]_vars


\* the command id is the one the poll of this step executes
Executes(id) ==
  /\ log'.op = "poll_commands"
  /\ id \in DOMAIN cmds.queue
  /\ Issued(log'.calls, "DELETE", "commands", id, 0)

\* C22: a poll that executes a command whose type is neither stop_monitoring
\* nor start_monitoring leaves the monitoring state, the agent and every
\* session row as they are, and the poller keeps running.
C22_UnknownCommandIgnored ==
  [][\A id \in DOMAIN cmds.queue :
        (Executes(id) /\ cmds.queue[id].type \notin {"stop_monitoring", "start_monitoring"})
        => /\ app'.monitoring = app.monitoring
           /\ agent' = agent
           /\ db'.session_logs = db.session_logs
           /\ app'.up /\ app'.poller_active]_vars

\* a refresh command has just been executed during a pause
C22_Witness ==
  /\ Paused /\ log.op = "poll_commands"
  /\ \E id \in DOMAIN cmds.queue :
        /\ cmds.queue[id].type = "refresh"
        /\ Issued(log.calls, "DELETE", "commands", id, 0)
        /\ id \in DOMAIN returned


\* C23: with every remote call succeeding, once a full stop has returned and
\* no sync tick is in flight any more, no session has a document both under
\* sessions/history and under sessions/active.
C23_NeverActiveAndHistorical ==
  (net /\ app.up /\ ~app.monitoring /\ app.inflight = {})
     => DOMAIN remote.active \cap DOMAIN remote.history = {}


\* a step of a thread that an earlier agent has left behind: a heartbeat or
\* the rest of a sync tick while the application is not monitoring
StaleThreadStep == ~app.monitoring /\ log'.op \in {"heartbeat", "sync_all_end"}

\* C24: in one run of the process only the full stop writes status 'offline';
\* once it has, no thread left behind by an agent (a sync tick in flight, the
\* heartbeat of an agent discarded by a pause) sets the status back to 'online'.
C24_OfflineStaysOffline ==
  [][\A c \in DOMAIN remote.computers :
        (remote.computers[c].status = "offline" /\ StaleThreadStep)
        => remote'.computers[c].status = "offline"]_vars

\* C25: a local-store write call of several statements is atomic for the
\* other threads of the shared connection: while the main thread is inside
\* clear_linked_user, between its first DELETE and its commit, no commit of
\* another thread makes its statements durable (the file keeps the user link
\* that its first statement deletes)
InsideClearLinkedUser == app.up /\ app.screen = "disconnecting"

C25_WriteCallsAtomic ==
  InsideClearLinkedUser => app.txn # <<>> /\ Durable.user_link # <<>>

\* C26: without an account switch, whatever the interleaving of the
\* get_computer_id calls of the main thread, the sync-loop thread and the
\* command-poller thread, the computer table holds one row at most, its row
\* never changes, and every call returns the id of that row
C26_OneComputerRow ==
  /\ [](/\ Len(db.computer) <= 1
        /\ agent.live => db.computer = <<agent.computer_id>>
        /\ log.op = "get_computer_id" => \A c \in log.calls : db.computer = <<c.a>>)
  /\ [][Len(db.computer) > 0 => db.computer' = db.computer]_vars

C26_Witness ==
  /\ log.op = "get_computer_id"
  /\ \E c \in log.calls : c.node = "poller" /\ c.a = agent.computer_id
  /\ agent.live /\ agent.resume_mode

\* C27: in both agents a new application_logs row is opened only in a step
\* that closes the row open before, so that at most one application_logs row
\* has end_time = NULL, whatever the foreground changes, pauses, resumes and
\* stops
OpenRows(al) == {id \in Ids(al) : al[id].end_time = NULL}

C27_OneOpenApplicationLog ==
  /\ Cardinality(OpenRows(db.application_logs)) <= 1
  /\ Cardinality(OpenRows(script.application_logs)) <= 1

\* C28: within one process lifetime of the GUI agent (the specification it is
\* checked in starts the process once and never ends it) at most one
\* file_edits row is created for each file key (file_name|file_path|application),
\* also across a remote pause and resume
C28_OneFileEditPerFile ==
  \A i, j \in Ids(db.file_edits) :
     db.file_edits[i].file_key = db.file_edits[j].file_key => i = j

\* C29: the computer identity document is written on the first sync tick
\* whose remote write succeeds: a tick that issues remote calls while the
\* identity document of this computer has not been stored (the PUT of an
\* earlier tick failed) issues the identity PUT again
IdentityStored ==
  /\ ThisComputer \in DOMAIN remote.computers
  /\ remote.computers[ThisComputer].identity

C29_IdentityWriteRetried ==
  [][(log'.op = "sync_all" /\ log'.calls # {} /\ ~IdentityStored)
       => Issued(log'.calls, "PUT", "computers", ThisComputer, 0)]_vars

\* C30: a sync tick that issues the status/lastSeen patch less than 30 seconds
\* after the patch before it has pushed a completed session or an application
\* log, and a tick that pushed one issues the patch unless its agent is
\* stopping
StatusPatched == Issued(log'.calls, "PATCH", "computers", ThisComputer, 0)

PushedInStep ==
  \/ \E id \in Ids(db.session_logs) :
        db.session_logs[id].synced = 0 /\ db'.session_logs[id].synced = 1
  \/ \E id \in Ids(db.application_logs) :
        db.application_logs[id].synced = 0 /\ db'.application_logs[id].synced = 1

TickStopping ==
  IF log'.op = "sync_all" THEN agent.stopping ELSE \E t \in app.inflight : t.stopping

PatchedRecently ==
  /\ sync.last_status_update # -1
  /\ MicrosBetween(DateTime(now), DateTime(sync.last_status_update)) < 30 * 1000000

C31_StaleRowNeverArchived ==
  [][/\ (log'.op = "start_monitoring" /\ db'.session_seq = db.session_seq + 1 =>
           \A id \in get_active_sessions(db.session_logs) :
              /\ db'.session_logs[id].synced = 1
              /\ ~Issued(log'.calls, "PUT", "history", ThisComputer', id))
     /\ \A id \in Ids(db.session_logs) \cap Ids(db'.session_logs) :
           db.session_logs[id].synced = 1 =>
              /\ db'.session_logs[id].synced = 1
              /\ ~Issued(log'.calls, "PUT", "history", ThisComputer, id)]_vars

\* a sync tick with the network up has run past a row that an earlier start
\* closed as stale: the row is marked synced and is not in the history
C31_Witness ==
  /\ log.op = "sync_all" /\ log.probe # "down" /\ log.calls # {}
  /\ \E id \in Ids(db.session_logs) :
        /\ id # agent.current_session_id
        /\ db.session_logs[id].session_end = db.session_logs[id].session_start
        /\ db.session_logs[id].synced = 1
        /\ SessKey(ThisComputer, id) \notin DOMAIN remote.history

\* C32: in both sync implementations a completed session, application log,
\* website log or file edit gets synced = 1 from the sync engine only in a
\* step in which the remote write of that record succeeded, and a record whose
\* remote write failed keeps synced = 0
MarkedInStep(before, after) ==
  {id \in Ids(before) \cap Ids(after) : before[id].synced = 0 /\ after[id].synced = 1}

\* rows that log_session_start closes as stale are marked by the store
ClosedAsStale ==
  IF log'.op = "start_monitoring" THEN get_active_sessions(db.session_logs) ELSE {}

GuiMarksFollowWrites(before, after, node, excused) ==
  /\ \A id \in MarkedInStep(before, after) \ excused :
        Call("PUT", node, ThisComputer, id, TRUE) \in log'.calls
  /\ \A id \in Ids(before) \cap Ids(after) :
        (before[id].synced = 0 /\ Call("PUT", node, ThisComputer, id, FALSE) \in log'.calls)
           => after[id].synced = 0

ScriptMarksFollowWrites(before, after, node) ==
  MarkedInStep(before, after) # {} =>
     \E u \in Users : MarkedInStep(before, after) \subseteq script'.cloud[u][node]

C32_MarkedOnlyAfterWrite ==
  [][/\ GuiMarksFollowWrites(db.session_logs, db'.session_logs, "history", ClosedAsStale)
     /\ GuiMarksFollowWrites(db.application_logs, db'.application_logs, "activities", {})
     /\ GuiMarksFollowWrites(db.file_edits, db'.file_edits, "fileEdits", {})
     /\ ScriptMarksFollowWrites(script.session_logs, script'.session_logs, "history")
     /\ ScriptMarksFollowWrites(script.application_logs, script'.application_logs,
                                "activities")
     /\ ScriptMarksFollowWrites(script.website_logs, script'.website_logs, "websites")]_vars

\* a GUI tick has marked a session whose history write succeeded and left
\* unmarked a file edit whose write failed
C32_Witness ==
  /\ log.op = "sync_all"
  /\ \E id \in Ids(db.session_logs) :
        /\ Call("PUT", "history", ThisComputer, id, TRUE) \in log.calls
        /\ db.session_logs[id].synced = 1
  /\ \E id \in Ids(db.file_edits) :
        /\ Call("PUT", "fileEdits", ThisComputer, id, FALSE) \in log.calls
        /\ db.file_edits[id].synced = 0

\* C33: if from some point on connectivity stays available, the identity is
\* resolved, the remote writes succeed and the agent stays active, then under
\* weak fairness of the sync loop every completed session row and every closed
\* application log with synced = 0 is eventually marked synced
SyncFavourable ==
  /\ net /\ app.up /\ app.monitoring /\ agent.live /\ agent.running
  /\ sync.user_id # NoUser
  /\ \A c \in log.calls : c.ok

Drained ==
  /\ \A id \in Ids(db.session_logs) :
        db.session_logs[id].session_end # NULL => db.session_logs[id].synced = 1
  /\ \A id \in Ids(db.application_logs) :
        db.application_logs[id].end_time # NULL => db.application_logs[id].synced = 1

C33_QueuesEventuallyDrained == <>[]SyncFavourable => <>[]Drained

\* a tick of a running agent has just pushed a session that an earlier run
\* ended without connectivity, and nothing is left in the queues
C33_Witness ==
  /\ log.op = "sync_all" /\ SyncFavourable /\ Drained
  /\ \E id \in Ids(db.session_logs) :
        /\ id # agent.current_session_id
        /\ Call("PUT", "history", ThisComputer, id, TRUE) \in log.calls
  /\ \E id \in Ids(db.application_logs) :
        Call("PUT", "activities", ThisComputer, id, TRUE) \in log.calls


\* C34: while the linking code does not resolve to a user (no saved link and a
\* code that agentCodes/ does not resolve), the sync loop, the heartbeat and
\* the command poller mark no record synced and issue no write under
\* users/{userId}/, while the session row and the application logs of the
\* running agent are recorded in the local store.  No other step marks a
\* record either, but for log_session_start, which closes the rows an unclean
\* shutdown left open as already synced.
Unresolved ==
  /\ get_linked_user_id(db.user_link) = NoUser
  /\ ~ResolveFromCode(config.mem, [code_get |-> TRUE])

UserWrites(calls) ==
  {c \in calls : c.verb \in {"PUT", "PATCH", "DELETE"} /\ c.node # "agentCodes"}

RecordedLocally ==
  (app.monitoring /\ agent.live /\ agent.running /\ ~agent.resume_mode) =>
     /\ agent.current_session_id \in Ids(db.session_logs)
     /\ agent.current_app_log_id # 0 => agent.current_app_log_id \in Ids(db.application_logs)

\* the rows that get synced = 1 are those log_session_start closes as stale
MarkedOnlyAsStale ==
  /\ MarkedInStep(db.session_logs, db'.session_logs) \subseteq ClosedAsStale
  /\ MarkedInStep(db.application_logs, db'.application_logs) = {}
  /\ MarkedInStep(db.file_edits, db'.file_edits) = {}

EndedAlready(sl, id) == id \notin Ids(sl) \/ sl[id].session_end # NULL

EndIsNoOp(op, before, after) ==
  \A id \in SessionIds :
     (/\ log'.op = op
      /\ Call("LOCAL", "session_logs", id, 0, TRUE) \in log'.calls
      /\ EndedAlready(before, id)) => after = before

C35_EndOfClosedSessionIsNoOp ==
  [][/\ EndIsNoOp("log_session_end", db.session_logs, db'.session_logs)
     /\ EndIsNoOp("end_session", script.session_logs, script'.session_logs)]_vars


\* C36: in the script agent, when check_user_change sees an OS username other
\* than the current session's and the store writes succeed, then on return
\* the previous session row has session_end set and exactly one row has been
\* added, which is open, carries the new username and is the current session
UserChangeSeen ==
  /\ log'.op = "script_monitoring_loop"
  /\ script.current_username # NoUser
  /\ script.os_user # script.current_username

C36_UserChangeRotatesSession ==
  [][UserChangeSeen =>
       /\ script.current_session_id \in Ids(script'.session_logs)
       /\ script'.session_logs[script.current_session_id].session_end # NULL
       /\ Ids(script'.session_logs) \ Ids(script.session_logs) = {script'.current_session_id}
       /\ script'.session_logs[script'.current_session_id].session_end = NULL
       /\ script'.session_logs[script'.current_session_id].username = script.os_user
       /\ script'.current_username = script.os_user]_vars

\* the loop has just rotated the session from one user to the other
C36_Witness ==
  /\ log.op = "script_monitoring_loop"
  /\ script.current_session_id > 1
  /\ script.current_username = script.os_user
  /\ \E id \in Ids(script.session_logs) :
        /\ id # script.current_session_id
        /\ script.session_logs[id].username # script.os_user
        /\ script.session_logs[id].session_end = isoformat(DateTime(now))
  /\ script.session_logs[script.current_session_id].session_start = isoformat(DateTime(now))
  /\ script.session_logs[script.current_session_id].session_end = NULL


\* C37: the two session-ending paths, Database.end_session (max(1, round))
\* and LocalDatabase.log_session_end (int), record different duration_minutes
\* for the same session exactly when it ran for less than a minute or the
\* seconds beyond the whole minutes round up; at 89 seconds both record 1
EndedAlike ==
  /\ db.session_logs[1].session_end # NULL
  /\ script.session_logs[1].session_end = db.session_logs[1].session_end

SessionMicros ==
  MicrosBetween(fromisoformat(db.session_logs[1].session_end),
                fromisoformat(db.session_logs[1].session_start))

MicrosPerMinute == 60000000

RoundsUp(e) ==
  \/ 2 * (e % MicrosPerMinute) > MicrosPerMinute
  \/ 2 * (e % MicrosPerMinute) = MicrosPerMinute /\ (e \div MicrosPerMinute) % 2 = 1

DurationsDiffer ==
  db.session_logs[1].duration_minutes # script.session_logs[1].duration_minutes

C37_DurationsDifferWhenRoundedUp ==
  EndedAlike =>
    /\ DurationsDiffer <=> (SessionMicros < MicrosPerMinute \/ RoundsUp(SessionMicros))
    /\ SessionMicros = 89 * 1000000 =>
          /\ db.session_logs[1].duration_minutes = 1
          /\ script.session_logs[1].duration_minutes = 1

\* as stated: at 89 seconds the two paths disagree
C37_DisagreeAt89Seconds ==
  (EndedAlike /\ SessionMicros = 89 * 1000000) => DurationsDiffer

\* a session of 89 seconds ended by both paths
C37_Witness ==
  /\ EndedAlike /\ SessionMicros = 89 * 1000000
  /\ log.op \in {"log_session_end", "end_session"}
  /\ ~DurationsDiffer


\* C38: in the script agent, once the active-session document of the current
\* open session has been mirrored, no later sync tick of the same process
\* deletes it while the session is still open (the cleanup of this
\* computer's active-session documents belongs to the first registration
\* sync after the process start)
MirroredOpenSession(sc) ==
  /\ sc.up /\ sc.user_id # NoUser /\ sc.current_session_id # 0
  /\ sc.current_session_id \in Ids(sc.session_logs)
  /\ sc.session_logs[sc.current_session_id].session_end = NULL
  /\ sc.current_session_id \in sc.cloud[sc.user_id].active

C38_MirroredDocumentKept ==
  [][(/\ MirroredOpenSession(script)
      /\ log'.op = "script_sync_loop"
      /\ script'.current_session_id = script.current_session_id
      /\ script'.session_logs[script.current_session_id].session_end = NULL)
       => script.current_session_id \in script'.cloud[script.user_id].active]_vars


\* C39: in the script agent, when check_connection observes the change from
\* offline to online, the connection-restored callback has performed a data
\* sync by the time check_connection returns: the sync is stamped with the
\* current instant and no website log is left unsynced
RestoredObserved ==
  /\ log'.op = "check_connection"
  /\ ~script.last_check_result
  /\ script'.last_check_result

C39_SyncOnConnectionRestored ==
  [][RestoredObserved =>
       /\ script'.last_sync_time = now
       /\ \A id \in Ids(script'.website_logs) : script'.website_logs[id].synced = 1]_vars

====
